---- MODULE Spec2Model ----
(***************************************************************************)
(* Verification model of the zerodha-clone backend (Express + Mongoose).   *)
(*                                                                         *)
(* Part 1: the order routes (routes/ordersRoutes.js, kept in               *)
(* src/unnamed/part_000) running against OrdersSchema                      *)
(* (src/backend/schemas/OrdersSchema.js, bound to the model in             *)
(* src/unnamed/part_002).                                                  *)
(*                                                                         *)
(* Part 2: the holdings routes (src/backend/routes/holdingsRoutes.js)      *)
(* against HoldingsSchema (second half of OrdersSchema.js), the list       *)
(* routes of positions (second half of src/backend/routes/marketRoutes.js) *)
(* against PositionsSchema, and the portfolio aggregation of the list      *)
(* routes as a function of the entry list.                                 *)
(*                                                                         *)
(* A Mongoose document is modelled as the record of its schema paths.      *)
(* None of the schemas sets `strict: false`, so a key that is not a schema *)
(* path is dropped by the model constructor and an assignment to such a    *)
(* key on a loaded document is an ordinary JavaScript property that        *)
(* save() does not persist.  Reading such a key from a loaded document     *)
(* yields undefined.                                                       *)
(*                                                                         *)
(* The collections are persistent and have other writers (the schema's     *)
(* status enum holds EXECUTED and REJECTED, which no route assigns), so    *)
(* the initial state holds any document that save() through the same      *)
(* schema accepts.  req.user.id, which authenticateToken hands to every    *)
(* handler, is an input of the handler.                                    *)
(***************************************************************************)
EXTENDS Integers, Sequences, FiniteSets, TLC

\* ------------------------------------------------------------------ bounds
MaxPrice == 2
MaxQty == 1
\* Significant bits of a Number in the model, and the exponent range.
Precision == 4
MaxExp == 6
\* Longest list of entries handed to the portfolio aggregation.
MaxLen == 3

\* ------------------------------------------------ JavaScript value markers
\* undefined in a Number position (a body field that was not sent, a path
\* that was never set) and NaN (undefined * n).
Undefined == 0 - 1000001
NaN == 0 - 1000002
\* undefined in a String position.
UndefStr == "undefined"

Users == {"u1", "u2"}
\* The owner of the documents the collection starts with.
Owners == {"u1"}
OrderIds == {"o1", "o2"}
NoDoc == [absent |-> TRUE]

Prices == 1..MaxPrice
OptPrices == {Undefined} \cup Prices
Quantities == 1..MaxQty

VARIABLES
    orders,     \* the orders collection: OrderIds -> document or NoDoc
    ores,       \* the last order request and its response
    holdings,   \* the holdings collection: HoldingIds -> document or NoDoc
    positions,  \* the positions collection: PositionIds -> document or NoDoc
    strictQuery,\* whether the Mongoose of the build strips unknown filter keys
    pres,       \* the last holdings or positions request and its response
    afirst,     \* the entry list as first handed to the aggregation
    alist,      \* the entry list in its current order
    abase,      \* the totals of afirst
    atotals,    \* the totals of alist
    watchlists, \* the watchlists collection: WatchlistIds -> document or NoDoc
    wres,       \* the last watchlist request and its response
    inflight,   \* the requests that have read the database and not yet written
    accounts,   \* the users collection: Users (the _id values) -> document or NoDoc
    tokens,     \* the payloads of the access tokens issued so far
    ures        \* the last user or authentication request and its response

ovars == <<orders, ores>>
pvars == <<holdings, positions, strictQuery, pres>>
avars == <<afirst, alist, abase, atotals>>
wvars == <<watchlists, wres>>
cvars == <<inflight>>
uvars == <<accounts, tokens, ures>>
vars == <<ovars, pvars, avars, wvars, cvars, uvars>>

\* The handlers await the database twice, once to read and once to write;
\* a request between the two is in flight.
RequestIds == {"r1", "r2"}
NoRequest == [op |-> "none"]
RequestsIdle == inflight = [r \in RequestIds |-> NoRequest]

\* ------------------------------------------------------------ OrdersSchema
OrderTypeEnum == {"MARKET", "LIMIT", "SL", "SL-M"}
TransactionTypeEnum == {"BUY", "SELL"}
ProductEnum == {"CNC", "MIS", "NRML"}
StatusEnum == {"PENDING", "EXECUTED", "CANCELLED", "REJECTED"}
ValidityEnum == {"DAY", "IOC"}
ExchangeEnum == {"NSE", "BSE"}

\* `required` of a String / ObjectId path: present and not empty.
RequiredStr(v) == v # UndefStr /\ v # ""
\* `required` of a Number path: any number, 0 included.
RequiredNum(v) == v # Undefined /\ v # NaN

\* OrdersSchema.price.required / OrdersSchema.triggerPrice.required
PriceRequired(doc) == doc.orderType = "LIMIT" \/ doc.orderType = "SL"
TriggerPriceRequired(doc) == doc.orderType = "SL" \/ doc.orderType = "SL-M"

\* The validators declared on the schema paths, run by save() before the
\* pre('save') hooks.  A NaN never gets past the Number cast.
OrdersSchemaValid(doc) ==
    /\ RequiredStr(doc.userId)
    /\ RequiredStr(doc.symbol)
    /\ doc.orderType \in OrderTypeEnum
    /\ doc.transactionType \in TransactionTypeEnum
    /\ doc.product \in ProductEnum
    /\ RequiredNum(doc.quantity) /\ doc.quantity >= 1
    /\ (PriceRequired(doc) => RequiredNum(doc.price))
    /\ doc.price # NaN /\ (doc.price # Undefined => doc.price >= 0)
    /\ (TriggerPriceRequired(doc) => RequiredNum(doc.triggerPrice))
    /\ doc.triggerPrice # NaN
    /\ (doc.triggerPrice # Undefined => doc.triggerPrice >= 0)
    /\ doc.status \in StatusEnum
    /\ doc.validity \in ValidityEnum
    /\ doc.exchange \in ExchangeEnum
    /\ doc.remainingQuantity # NaN
    /\ doc.orderValue # NaN

\* JavaScript !x for a Number path: undefined, NaN and 0 are falsy.
Falsy(v) == v = Undefined \/ v = NaN \/ v = 0

\* JavaScript a >= b on Number paths: false when either side is undefined.
JsGeq(a, b) == a # Undefined /\ a # NaN /\ b # Undefined /\ b # NaN /\ a >= b

\* A JavaScript Number is a binary floating-point value: the result of an
\* operation is rounded to the nearest value with Precision significant
\* bits, ties to the even significand (53 bits in binary64).
RECURSIVE Pow2(_)
Pow2(n) == IF n = 0 THEN 1 ELSE 2 * Pow2(n - 1)
Abs(x) == IF x < 0 THEN 0 - x ELSE x
Ulp(x) ==
    Pow2(CHOOSE k \in 0..MaxExp :
            /\ Abs(x) < Pow2(Precision + k)
            /\ (k = 0 \/ Abs(x) >= Pow2(Precision + k - 1)))
Fl(x) ==
    LET u == Ulp(x)
        q == Abs(x) \div u
        r == Abs(x) % u
        n == IF 2 * r < u THEN q
             ELSE IF 2 * r > u THEN q + 1
             ELSE IF q % 2 = 0 THEN q ELSE q + 1
    IN IF x < 0 THEN 0 - (n * u) ELSE n * u

IsNumber(a) == a # Undefined /\ a # NaN
\* JavaScript a * b, a + b, a - b: NaN when either side is undefined or NaN.
JsMul(a, b) == IF IsNumber(a) /\ IsNumber(b) THEN Fl(a * b) ELSE NaN
JsAdd(a, b) == IF IsNumber(a) /\ IsNumber(b) THEN Fl(a + b) ELSE NaN
JsSub(a, b) == IF IsNumber(a) /\ IsNumber(b) THEN Fl(a - b) ELSE NaN
\* Math.abs(a)
JsAbs(a) == IF IsNumber(a) THEN Abs(a) ELSE NaN

\* OrdersSchema.pre('save'): the errors handed to next(), in program order.
\* The hook does not return after next(err), so it runs to the final next().
PreSaveCalls(doc) ==
    (IF (doc.orderType = "LIMIT" \/ doc.orderType = "SL") /\ Falsy(doc.price)
        THEN <<"Price is required for LIMIT and SL orders">> ELSE <<>>)
    \o (IF (doc.orderType = "SL" \/ doc.orderType = "SL-M") /\ Falsy(doc.triggerPrice)
        THEN <<"Trigger price is required for SL and SL-M orders">> ELSE <<>>)
    \o (IF doc.orderType = "SL" /\ JsGeq(doc.triggerPrice, doc.price)
        THEN <<"For SL orders, trigger price must be less than limit price">> ELSE <<>>)
    \o <<"ok">>

\* The hook without its trigger-price comparison for SL orders.
OrdersPreSave_NoCompare(doc) ==
    Head(SelectSeq(PreSaveCalls(doc),
         LAMBDA e : e # "For SL orders, trigger price must be less than limit price"))

\* Mongoose hands the hook a next() that acts on its first call only.
OrdersPreSave(doc) == Head(PreSaveCalls(doc))

\* doc.save(): validation, then the hook; TRUE when the document is written.
OrdersSaveOk(doc) == OrdersSchemaValid(doc) /\ OrdersPreSave(doc) = "ok"

\* ------------------------------------------------------------ request bodies
\* req.body of POST /orders/new and PUT /orders/:orderId.
BaseBody ==
    [name |-> "INFY", qty |-> 1, price |-> 1, mode |-> "BUY",
     orderType |-> "LIMIT", validity |-> "DAY", triggerPrice |-> Undefined]

\* One body for each way of failing orderValidation on a field the order
\* rules do not read.
MalformedBodies ==
    {[BaseBody EXCEPT !.name = ""], [BaseBody EXCEPT !.qty = 0],
     [BaseBody EXCEPT !.mode = "HOLD"], [BaseBody EXCEPT !.validity = "GTC"]}

\* Every combination of the fields the order rules read.
Bodies ==
    {[BaseBody EXCEPT !.price = p, !.orderType = t,
                      !.validity = v, !.triggerPrice = tp] :
        p \in OptPrices, t \in OrderTypeEnum, v \in ValidityEnum, tp \in OptPrices}
    \cup MalformedBodies

\* PUT /:orderId reads qty, price, validity and triggerPrice of the body;
\* its orderType only has to pass orderValidation.
ModifyBodies ==
    {b \in Bodies : b.orderType = "LIMIT"} \cup {[BaseBody EXCEPT !.orderType = "SL"]}

\* The bodies POST /new is given while orders are being modified and cancelled.
SampleBodies ==
    {b \in Bodies : /\ b.validity = "DAY" /\ b.orderType \in {"LIMIT", "SL"}
                    /\ b.price = MaxPrice /\ b.triggerPrice = 1}

\* orderValidation (express-validator); 0.01 is the smallest price unit, 1.
orderValidation(body) ==
    /\ body.name # ""
    /\ body.qty >= 1
    /\ body.price # Undefined /\ body.price >= 1
    /\ body.mode \in {"BUY", "SELL"}
    /\ body.orderType \in {"MARKET", "LIMIT"}
    /\ body.validity \in {"DAY", "IOC"}

\* new OrdersModel({userId, name, qty, price, mode, orderType, validity,
\* triggerPrice, status, orderDate, lastModified}): name, qty, mode, orderDate
\* and lastModified are not paths of OrdersSchema and are dropped; symbol,
\* transactionType and quantity are never given; the defaults fill the rest.
NewOrdersModel(userId, body) ==
    [userId |-> userId,
     symbol |-> UndefStr,
     orderType |-> body.orderType,
     transactionType |-> UndefStr,
     product |-> "CNC",
     quantity |-> Undefined,
     price |-> body.price,
     triggerPrice |-> body.triggerPrice,
     status |-> "PENDING",
     validity |-> body.validity,
     exchange |-> "NSE",
     filledQuantity |-> 0,
     remainingQuantity |-> Undefined,
     orderValue |-> JsMul(body.price, Undefined)]

\* OrdersModel.findOne({_id: orderId, userId: req.user.id})
FindOrder(orderId, userId) ==
    IF orders[orderId] # NoDoc /\ orders[orderId].userId = userId
    THEN orders[orderId] ELSE NoDoc

\* The request that was handled last and what res.status(..).json(..) sent.
\* body is the body of a create request (BaseBody for the other requests).
Response(op, userId, orderId, body, status, error) ==
    [op |-> op, userId |-> userId, orderId |-> orderId, body |-> body,
     status |-> status, error |-> error]

\* The documents save() accepts: what the collection can hold.
StoredOrders ==
    {d \in [userId : Owners, symbol : {"INFY"}, orderType : OrderTypeEnum,
            transactionType : {"BUY"}, product : {"CNC"}, quantity : Quantities,
            price : OptPrices, triggerPrice : OptPrices, status : StatusEnum,
            validity : ValidityEnum, exchange : {"NSE"}, filledQuantity : {0},
            remainingQuantity : Quantities, orderValue : 0..(MaxPrice * MaxQty)] :
        /\ OrdersSaveOk(d)
        /\ d.remainingQuantity = d.quantity
        /\ d.orderValue = (IF d.price = Undefined THEN 0 ELSE d.price * d.quantity)}

NoResponse == Response("none", UndefStr, "o1", BaseBody, 0, "")

\* ------------------------------------------------------------- POST /new
PlaceOrder(userId, body) ==
    IF ~orderValidation(body)
    THEN /\ ores' = Response("create", userId, "o1", body, 400, "validation")
         /\ UNCHANGED orders
    ELSE IF body.orderType = "LIMIT" /\ Falsy(body.price)
    THEN /\ ores' = Response("create", userId, "o1", body, 400, "Price is required for LIMIT orders")
         /\ UNCHANGED orders
    ELSE LET newOrder == NewOrdersModel(userId, body)
             free == {i \in OrderIds : orders[i] = NoDoc}
         IN IF OrdersSaveOk(newOrder) /\ free # {}
            THEN \E i \in free :
                    /\ orders' = [orders EXCEPT ![i] = newOrder]
                    /\ ores' = Response("create", userId, i, body, 201, "")
            ELSE /\ ores' = Response("create", userId, "o1", body, 500, "Failed to place order")
                 /\ UNCHANGED orders

\* ------------------------------------------------- POST /:orderId/cancel
\* The handler without its status check.
CancelOrder_NoGuard(userId, orderId) ==
    LET order == FindOrder(orderId, userId) IN
    IF order = NoDoc
    THEN /\ ores' = Response("cancel", userId, orderId, BaseBody, 404, "Order not found")
         /\ UNCHANGED orders
    ELSE /\ orders' = [orders EXCEPT ![orderId] = [order EXCEPT !.status = "CANCELLED"]]
         /\ ores' = Response("cancel", userId, orderId, BaseBody, 200, "")

\* The handler answering 200 without awaiting order.save().
CancelOrder_NoSave(userId, orderId) ==
    LET order == FindOrder(orderId, userId) IN
    IF order = NoDoc
    THEN /\ ores' = Response("cancel", userId, orderId, BaseBody, 404, "Order not found")
         /\ UNCHANGED orders
    ELSE IF order.status \notin {"PENDING", "OPEN"}
    THEN /\ ores' = Response("cancel", userId, orderId, BaseBody, 400, "Invalid operation")
         /\ UNCHANGED orders
    ELSE /\ ores' = Response("cancel", userId, orderId, BaseBody, 200, "")
         /\ UNCHANGED orders

CancelOrder(userId, orderId) ==
    LET order == FindOrder(orderId, userId) IN
    IF order = NoDoc
    THEN /\ ores' = Response("cancel", userId, orderId, BaseBody, 404, "Order not found")
         /\ UNCHANGED orders
    ELSE IF order.status \notin {"PENDING", "OPEN"}
    THEN /\ ores' = Response("cancel", userId, orderId, BaseBody, 400, "Invalid operation")
         /\ UNCHANGED orders
    ELSE LET cancelled == [order EXCEPT !.status = "CANCELLED"] IN
         IF OrdersSaveOk(cancelled)
         THEN /\ orders' = [orders EXCEPT ![orderId] = cancelled]
              /\ ores' = Response("cancel", userId, orderId, BaseBody, 200, "")
         ELSE /\ ores' = Response("cancel", userId, orderId, BaseBody, 500, "Failed to cancel order")
              /\ UNCHANGED orders

\* res.json(document): the response carries the document that was found.
WithDoc(response, doc) == [doc |-> doc] @@ response

\* ---------------------------------------------------------- GET /:orderId
\* A handler that tells an order of another owner from no order.
GetOrder_Forbidden(userId, orderId) ==
    /\ ores' = IF orders[orderId] = NoDoc
               THEN Response("get", userId, orderId, BaseBody, 404, "Order not found")
               ELSE IF orders[orderId].userId # userId
               THEN Response("get", userId, orderId, BaseBody, 403, "Forbidden")
               ELSE WithDoc(Response("get", userId, orderId, BaseBody, 200, ""),
                            orders[orderId])
    /\ UNCHANGED orders

GetOrder(userId, orderId) ==
    LET order == FindOrder(orderId, userId) IN
    /\ ores' = IF order = NoDoc
               THEN Response("get", userId, orderId, BaseBody, 404, "Order not found")
               ELSE WithDoc(Response("get", userId, orderId, BaseBody, 200, ""), order)
    /\ UNCHANGED orders

\* --------------------------------------------------------- PUT /:orderId
\* order.qty and order.lastModified are not schema paths: the assignments
\* do not reach the stored document.
Patched_WithOrderType(order, body) ==
    [order EXCEPT !.price = body.price,
                  !.validity = body.validity,
                  !.triggerPrice = body.triggerPrice,
                  !.orderType = body.orderType]

Patched(order, body) ==
    [order EXCEPT !.price = body.price,
                  !.validity = body.validity,
                  !.triggerPrice = body.triggerPrice]

ModifyOrder(userId, orderId, body) ==
    LET order == FindOrder(orderId, userId) IN
    IF ~orderValidation(body)
    THEN /\ ores' = Response("modify", userId, orderId, BaseBody, 400, "validation")
         /\ UNCHANGED orders
    ELSE IF order = NoDoc
    THEN /\ ores' = Response("modify", userId, orderId, BaseBody, 404, "Order not found")
         /\ UNCHANGED orders
    ELSE IF order.status \notin {"PENDING", "OPEN"}
    THEN /\ ores' = Response("modify", userId, orderId, BaseBody, 400, "Invalid operation")
         /\ UNCHANGED orders
    ELSE IF OrdersSaveOk(Patched(order, body))
         THEN /\ orders' = [orders EXCEPT ![orderId] = Patched(order, body)]
              /\ ores' = Response("modify", userId, orderId, BaseBody, 200, "")
         ELSE /\ ores' = Response("modify", userId, orderId, BaseBody, 500, "Failed to modify order")
              /\ UNCHANGED orders

\* ============================================= holdings and positions
\* h.name, h.qty, h.avg, h.price, h.net and h.day are not paths of
\* HoldingsSchema (nor of PositionsSchema): a document built or loaded by
\* the model keeps the schema's paths only, and reading one of the other
\* names on it yields undefined.
Symbols == {"INFY", "TCS"}
HoldingIds == {"h1", "h2"}
PositionIds == {"p1", "p2"}
HoldingPaths ==
    {"userId", "symbol", "quantity", "averageBuyPrice", "currentMarketPrice",
     "investedAmount", "currentValue", "profitLoss"}
PositionPaths ==
    {"userId", "symbol", "product", "quantity", "averagePrice",
     "lastTradedPrice", "buyQuantity", "sellQuantity", "buyAveragePrice",
     "sellAveragePrice", "multiplier", "profitLoss", "realizedProfitLoss",
     "unrealizedProfitLoss"}

\* doc[name] as JavaScript reads it.
Read(doc, name) == IF name \in DOMAIN doc THEN doc[name] ELSE Undefined

\* The entry the list and bulk-update callbacks read from a document.
Entry(doc) ==
    [avg |-> Read(doc, "avg"), qty |-> Read(doc, "qty"),
     price |-> Read(doc, "price"), net |-> Read(doc, "net")]

\* Number.prototype.toFixed(2) of an integral Number, of NaN.
ToFixed(v) == IF IsNumber(v) THEN ToString(v) \o ".00" ELSE "NaN"

\* ((a / b) * 100).toFixed(2); the quotient is kept to two decimals.
PctFixed(a, b) ==
    IF ~(IsNumber(a) /\ IsNumber(b)) THEN "NaN"
    ELSE IF b = 0
    THEN (IF a = 0 THEN "NaN" ELSE IF a > 0 THEN "Infinity" ELSE "-Infinity")
    ELSE LET c == (2 * Abs(a) * 10000 + Abs(b)) \div (2 * Abs(b))
             d == c % 100
             neg == (a < 0 /\ b > 0) \/ (a > 0 /\ b < 0)
         IN (IF neg THEN "-" ELSE "") \o ToString(c \div 100) \o "."
            \o (IF d < 10 THEN "0" ELSE "") \o ToString(d)

\* list.reduce((sum, t) => sum + t, 0) over the terms of the callback.
RECURSIVE ReduceSum(_)
ReduceSum(terms) ==
    IF terms = <<>> THEN 0
    ELSE JsAdd(ReduceSum(SubSeq(terms, 1, Len(terms) - 1)), terms[Len(terms)])

\* GET /holdings: the three reduces and totalPnL.
HoldingsTotals(entries) ==
    LET n == Len(entries)
        totalInvestment ==
            ReduceSum([i \in 1..n |-> JsMul(entries[i].avg, entries[i].qty)])
        currentValue ==
            ReduceSum([i \in 1..n |-> JsMul(entries[i].price, entries[i].qty)])
        todaysPnL == ReduceSum([i \in 1..n |-> entries[i].net])
    IN [totalInvestment |-> totalInvestment, currentValue |-> currentValue,
        todaysPnL |-> todaysPnL,
        totalPnL |-> JsSub(currentValue, totalInvestment)]

\* Sums that start at the second entry.
PositionsTotals_SkipFirst(entries) ==
    LET n == Len(entries)
        totalInvestment ==
            ReduceSum([i \in 1..(n - 1) |->
                          JsMul(entries[i + 1].avg, JsAbs(entries[i + 1].qty))])
        currentValue ==
            ReduceSum([i \in 1..(n - 1) |->
                          JsMul(entries[i + 1].price, JsAbs(entries[i + 1].qty))])
        dayPnL == ReduceSum([i \in 1..(n - 1) |-> entries[i + 1].net])
    IN [totalInvestment |-> totalInvestment, currentValue |-> currentValue,
        todaysPnL |-> dayPnL,
        totalPnL |-> JsSub(currentValue, totalInvestment)]

\* GET /positions and GET /positions/product/:type: the same sums over
\* Math.abs(qty); dayPnL is the sum of net.
PositionsTotals(entries) ==
    LET n == Len(entries)
        totalInvestment ==
            ReduceSum([i \in 1..n |->
                          JsMul(entries[i].avg, JsAbs(entries[i].qty))])
        currentValue ==
            ReduceSum([i \in 1..n |->
                          JsMul(entries[i].price, JsAbs(entries[i].qty))])
        dayPnL == ReduceSum([i \in 1..n |-> entries[i].net])
    IN [totalInvestment |-> totalInvestment, currentValue |-> currentValue,
        todaysPnL |-> dayPnL,
        totalPnL |-> JsSub(currentValue, totalInvestment)]

\* The metrics object of the response.
Metrics(t) ==
    [totalInvestment |-> ToFixed(t.totalInvestment),
     currentValue |-> ToFixed(t.currentValue),
     todaysPnL |-> ToFixed(t.todaysPnL),
     totalPnL |-> ToFixed(t.totalPnL),
     totalPnLPercentage |-> PctFixed(t.totalPnL, t.totalInvestment)]
NoMetrics ==
    [totalInvestment |-> "", currentValue |-> "", todaysPnL |-> "",
     totalPnL |-> "", totalPnLPercentage |-> ""]

\* Both aggregations of one entry list.
Totals(list) ==
    [holdings |-> Metrics(HoldingsTotals(list)),
     positions |-> Metrics(PositionsTotals(list))]
NoTotals == [holdings |-> NoMetrics, positions |-> NoMetrics]

\* ----------------------------------------------------------- HoldingsSchema
HoldingsSchemaValid(doc) ==
    /\ RequiredStr(doc.userId)
    /\ RequiredStr(doc.symbol)
    /\ RequiredNum(doc.quantity) /\ doc.quantity >= 0
    /\ RequiredNum(doc.averageBuyPrice) /\ doc.averageBuyPrice >= 0
    /\ RequiredNum(doc.currentMarketPrice) /\ doc.currentMarketPrice >= 0
    /\ doc.investedAmount # NaN /\ doc.currentValue # NaN
    /\ doc.profitLoss # NaN

\* The unique index on (userId, symbol).
HoldingsIndexFree(doc) ==
    \A i \in HoldingIds :
        holdings[i] # NoDoc =>
            ~(holdings[i].userId = doc.userId /\ holdings[i].symbol = doc.symbol)

\* new HoldingsModel(obj): the keys of obj that are schema paths, the
\* missing paths undefined, then the defaults of the computed paths.
NewHoldingsModel(obj) ==
    LET quantity == Read(obj, "quantity")
        averageBuyPrice == Read(obj, "averageBuyPrice")
        currentMarketPrice == Read(obj, "currentMarketPrice")
        investedAmount == JsMul(quantity, averageBuyPrice)
        currentValue == JsMul(quantity, currentMarketPrice)
    IN [userId |-> obj.userId,
        symbol |-> IF "symbol" \in DOMAIN obj THEN obj.symbol ELSE UndefStr,
        quantity |-> quantity,
        averageBuyPrice |-> averageBuyPrice,
        currentMarketPrice |-> currentMarketPrice,
        investedAmount |-> investedAmount,
        currentValue |-> currentValue,
        profitLoss |-> JsSub(currentValue, investedAmount)]

\* save(): what is written is the document's schema paths.
Persisted(doc, paths) == [f \in paths |-> doc[f]]

\* ------------------------------------------------------- holdings requests
HoldingBody(name, qty, avg, price) ==
    [name |-> name, qty |-> qty, avg |-> avg, price |-> price]
HoldingBodies ==
    {HoldingBody("INFY", q, a, p) : q \in Quantities, a \in Prices, p \in Prices}
    \cup {HoldingBody("", 1, 1, 1), HoldingBody("TCS", 0, 1, 1),
          HoldingBody("TCS", 1, 0, 1), HoldingBody("TCS", 1, 1, 0)}

holdingValidation(body) ==
    /\ body.name # ""
    /\ body.qty >= 1
    /\ body.avg >= 1
    /\ body.price >= 1

\* (price - avg) * qty and ((price - avg) / avg) * 100
NetOf(qty, avg, price) == JsMul(JsSub(price, avg), qty)
DayOf(avg, price) == PctFixed(JsSub(price, avg), avg)

NoHolding == [qty |-> Undefined, avg |-> Undefined, price |-> Undefined,
              net |-> "", day |-> ""]
\* errors: the errors array of a bulk response, or the ids of the
\* documents a list response returns.
PResponse(op, userId, id, body, status, error, holding, metrics, errors) ==
    [op |-> op, userId |-> userId, id |-> id, body |-> body,
     status |-> status, error |-> error, holding |-> holding,
     metrics |-> metrics, errors |-> errors]
NoBody == HoldingBody("", 0, 0, 0)
NoPResponse ==
    PResponse("none", UndefStr, "", NoBody, 0, "", NoHolding, NoMetrics, <<>>)

\* A findOne({_id}) that does not filter by owner.
FindHolding_AnyOwner(holdingId, userId) ==
    IF holdingId \in HoldingIds THEN holdings[holdingId] ELSE NoDoc

\* HoldingsModel.findOne({_id, userId})
FindHolding(holdingId, userId) ==
    IF holdingId \in HoldingIds /\ holdings[holdingId] # NoDoc
       /\ holdings[holdingId].userId = userId
    THEN holdings[holdingId] ELSE NoDoc

\* HoldingsModel.findOne({userId, name}): name is not a schema path; with
\* strictQuery the filter is cut down to {userId}, without it no stored
\* document has a name to match.
FindHoldingByName(userId, name) ==
    IF strictQuery
    THEN {i \in HoldingIds : holdings[i] # NoDoc /\ holdings[i].userId = userId}
    ELSE {}

\* POST /holdings/add
AddHolding(userId, body) ==
    IF ~holdingValidation(body)
    THEN /\ pres' = PResponse("add", userId, "", body, 400, "validation",
                              NoHolding, NoMetrics, <<>>)
         /\ UNCHANGED <<holdings, positions, strictQuery>>
    ELSE IF FindHoldingByName(userId, body.name) # {}
    THEN /\ pres' = PResponse("add", userId, "", body, 400, "Holding exists",
                              NoHolding, NoMetrics, <<>>)
         /\ UNCHANGED <<holdings, positions, strictQuery>>
    ELSE LET net == NetOf(body.qty, body.avg, body.price)
             newHolding ==
                 NewHoldingsModel([userId |-> userId, name |-> body.name,
                                   qty |-> body.qty, avg |-> body.avg,
                                   price |-> body.price, net |-> net])
             free == {i \in HoldingIds : holdings[i] = NoDoc}
         IN IF HoldingsSchemaValid(newHolding) /\ HoldingsIndexFree(newHolding)
               /\ free # {}
            THEN \E i \in free :
                   /\ holdings' = [holdings EXCEPT ![i] = newHolding]
                   /\ pres' = PResponse("add", userId, i, body, 201, "",
                                 [qty |-> body.qty, avg |-> body.avg,
                                  price |-> body.price, net |-> ToFixed(net),
                                  day |-> DayOf(body.avg, body.price)],
                                 NoMetrics, <<>>)
                   /\ UNCHANGED <<positions, strictQuery>>
            ELSE /\ pres' = PResponse("add", userId, "", body, 500,
                                      "Failed to add holding",
                                      NoHolding, NoMetrics, <<>>)
                 /\ UNCHANGED <<holdings, positions, strictQuery>>

\* The order in which a query returns the documents of a collection:
\* sort({name: 1}) finds no name to sort by.
HoldingOrder == <<"h1", "h2">>
PositionOrder == <<"p1", "p2">>

\* GET /holdings
GetHoldings(userId) ==
    LET ids == {i \in HoldingIds :
                   holdings[i] # NoDoc /\ holdings[i].userId = userId}
        found == SelectSeq(HoldingOrder, LAMBDA i : i \in ids)
        entries == [k \in 1..Len(found) |-> Entry(holdings[found[k]])]
    IN /\ pres' = PResponse("listHoldings", userId, "", NoBody, 200, "",
                            NoHolding, Metrics(HoldingsTotals(entries)), found)
       /\ UNCHANGED <<holdings, positions, strictQuery>>

\* PUT /holdings/:holdingId, the assignments: properties of the loaded
\* document; save() then writes the schema paths.
Assigned(holding, body) ==
    Persisted([qty |-> body.qty, avg |-> body.avg, price |-> body.price,
               net |-> NetOf(body.qty, body.avg, body.price)] @@ holding,
              HoldingPaths)

\* PUT /holdings/:holdingId
UpdateHolding(userId, holdingId, body) ==
    LET holding == FindHolding(holdingId, userId) IN
    IF ~holdingValidation(body)
    THEN /\ pres' = PResponse("update", userId, holdingId, body, 400,
                              "validation", NoHolding, NoMetrics, <<>>)
         /\ UNCHANGED <<holdings, positions, strictQuery>>
    ELSE IF holding = NoDoc
    THEN /\ pres' = PResponse("update", userId, holdingId, body, 404,
                              "Holding not found", NoHolding, NoMetrics, <<>>)
         /\ UNCHANGED <<holdings, positions, strictQuery>>
    ELSE LET saved == Assigned(holding, body) IN
         IF HoldingsSchemaValid(saved)
         THEN /\ holdings' = [holdings EXCEPT ![holdingId] = saved]
              /\ pres' = PResponse("update", userId, holdingId, body, 200, "",
                            [qty |-> body.qty, avg |-> body.avg,
                             price |-> body.price,
                             net |-> ToFixed(NetOf(body.qty, body.avg, body.price)),
                             day |-> DayOf(body.avg, body.price)],
                            NoMetrics, <<>>)
              /\ UNCHANGED <<positions, strictQuery>>
         ELSE /\ pres' = PResponse("update", userId, holdingId, body, 500,
                                   "Failed to update holding",
                                   NoHolding, NoMetrics, <<>>)
              /\ UNCHANGED <<holdings, positions, strictQuery>>

\* DELETE /holdings/:holdingId
DeleteHolding(userId, holdingId) ==
    LET holding == FindHolding(holdingId, userId) IN
    IF holding = NoDoc
    THEN /\ pres' = PResponse("delete", userId, holdingId, NoBody, 404,
                              "Holding not found", NoHolding, NoMetrics, <<>>)
         /\ UNCHANGED <<holdings, positions, strictQuery>>
    ELSE /\ holdings' = [holdings EXCEPT ![holdingId] = NoDoc]
         /\ pres' = PResponse("delete", userId, holdingId, NoBody, 200, "",
                              NoHolding, NoMetrics, <<>>)
         /\ UNCHANGED <<positions, strictQuery>>

\* The updates of a bulk request: holdingId and price, either may be
\* missing (falsy).
UpdateItems ==
    {[holdingId |-> h, price |-> p] :
        h \in HoldingIds \cup {""}, p \in {0, MaxPrice}}
UpdateLists ==
    {<<>>} \cup {<<a>> : a \in UpdateItems}
    \cup {<<a, b>> : a \in UpdateItems, b \in UpdateItems}
\* req.body of a bulk request: updates is an array or it is not.
BulkBodies ==
    {[isArray |-> TRUE, updates |-> l] : l \in UpdateLists}
    \cup {[isArray |-> FALSE, updates |-> <<>>]}

\* bulkWrite updateOne {$set: set}: the update is cast to the schema, so
\* only the keys of set that are schema paths are written.
BulkSet(doc, set) ==
    [f \in DOMAIN doc |-> IF f \in DOMAIN set THEN set[f] ELSE doc[f]]

\* POST /holdings/bulk-update
BulkUpdateHoldings(userId, body) ==
    LET updates == body.updates
        outcome(u) ==
            IF u.holdingId = "" \/ Falsy(u.price) THEN "Invalid update data"
            ELSE IF FindHolding(u.holdingId, userId) = NoDoc
            THEN "Holding not found"
            ELSE "ok"
        outcomes == [k \in 1..Len(updates) |-> outcome(updates[k])]
        ops == SelectSeq(updates, LAMBDA u : outcome(u) = "ok")
        setOf(u) ==
            LET e == Entry(FindHolding(u.holdingId, userId)) IN
            [price |-> u.price,
             net |-> JsMul(JsSub(u.price, e.avg), e.qty),
             day |-> PctFixed(JsSub(u.price, e.avg), e.avg)]
        written(i) ==
            LET mine == SelectSeq(ops, LAMBDA u : u.holdingId = i) IN
            IF mine = <<>> THEN holdings[i]
            ELSE BulkSet(holdings[i], setOf(mine[Len(mine)]))
    IN IF ~body.isArray
       THEN /\ pres' = PResponse("bulk", userId, "", NoBody, 400,
                                 "Invalid request", NoHolding, NoMetrics, <<>>)
            /\ UNCHANGED <<holdings, positions, strictQuery>>
       ELSE /\ holdings' = [i \in HoldingIds |-> written(i)]
            /\ pres' = PResponse("bulk", userId, "", NoBody, 200, "",
                                 NoHolding, NoMetrics,
                                 SelectSeq(outcomes, LAMBDA o : o # "ok"))
            /\ UNCHANGED <<positions, strictQuery>>

\* ---------------------------------------------------------- PositionsSchema
PositionProducts == {"MIS", "NRML", "CNC"}
PositionsSchemaValid(doc) ==
    /\ RequiredStr(doc.userId)
    /\ RequiredStr(doc.symbol)
    /\ doc.product \in PositionProducts
    /\ RequiredNum(doc.quantity)
    /\ RequiredNum(doc.averagePrice) /\ doc.averagePrice >= 0
    /\ RequiredNum(doc.lastTradedPrice) /\ doc.lastTradedPrice >= 0

\* GET /positions
GetPositions(userId) ==
    LET ids == {i \in PositionIds :
                   positions[i] # NoDoc /\ positions[i].userId = userId}
        found == SelectSeq(PositionOrder, LAMBDA i : i \in ids)
        entries == [k \in 1..Len(found) |-> Entry(positions[found[k]])]
    IN /\ pres' = PResponse("listPositions", userId, "", NoBody, 200, "",
                            NoHolding, Metrics(PositionsTotals(entries)), found)
       /\ UNCHANGED <<holdings, positions, strictQuery>>

\* type.toUpperCase()
ToUpperCase(type) ==
    CASE type = "mis" -> "MIS"
      [] type = "cnc" -> "CNC"
      [] OTHER -> type
ProductParams == {"MIS", "cnc", "NRML", "FNO"}

\* GET /positions/product/:type
GetPositionsByProduct(userId, type) ==
    IF ToUpperCase(type) \notin {"CNC", "MIS", "NRML"}
    THEN /\ pres' = PResponse("listByProduct", userId, type, NoBody, 400,
                              "Invalid product type", NoHolding, NoMetrics, <<>>)
         /\ UNCHANGED <<holdings, positions, strictQuery>>
    ELSE LET ids == {i \in PositionIds :
                        /\ positions[i] # NoDoc
                        /\ positions[i].userId = userId
                        /\ positions[i].product = ToUpperCase(type)}
             found == SelectSeq(PositionOrder, LAMBDA i : i \in ids)
             entries == [k \in 1..Len(found) |-> Entry(positions[found[k]])]
         IN /\ pres' = PResponse("listByProduct", userId, type, NoBody, 200, "",
                                 NoHolding, Metrics(PositionsTotals(entries)),
                                 found)
            /\ UNCHANGED <<holdings, positions, strictQuery>>

\* GET /holdings/:holdingId
GetHolding(userId, holdingId) ==
    LET holding == FindHolding(holdingId, userId) IN
    /\ pres' = IF holding = NoDoc
               THEN PResponse("get", userId, holdingId, NoBody, 404,
                              "Holding not found", NoHolding, NoMetrics, <<>>)
               ELSE WithDoc(PResponse("get", userId, holdingId, NoBody, 200,
                                      "", NoHolding, NoMetrics, <<>>), holding)
    /\ UNCHANGED <<holdings, positions, strictQuery>>

\* --------------------------------------------------------- positions routes
\* The virtuals and methods of PositionsSchema.
netQuantity(doc) == JsSub(doc.buyQuantity, doc.sellQuantity)
\* An average that takes the buy side for long and short alike.
averageBuySellPrice_BuyOnly(doc) ==
    IF netQuantity(doc) = 0 THEN 0 ELSE doc.buyAveragePrice

averageBuySellPrice(doc) ==
    IF netQuantity(doc) = 0 THEN 0
    ELSE IF netQuantity(doc) > 0 THEN doc.buyAveragePrice
    ELSE doc.sellAveragePrice
calculateUnrealizedProfitLoss(doc) ==
    IF netQuantity(doc) = 0 THEN 0
    ELSE JsMul(JsMul(netQuantity(doc),
                     JsSub(doc.lastTradedPrice, averageBuySellPrice(doc))),
               doc.multiplier)
calculateProfitLoss(doc) ==
    JsAdd(doc.realizedProfitLoss, calculateUnrealizedProfitLoss(doc))

\* PositionsSchema.pre('save')
PositionsPreSave(doc) ==
    [doc EXCEPT !.profitLoss = calculateProfitLoss(doc),
                !.unrealizedProfitLoss = calculateUnrealizedProfitLoss(doc)]

\* The unique index on (userId, symbol, product).
PositionsIndexFree(doc) ==
    \A i \in PositionIds :
        positions[i] # NoDoc =>
            ~(/\ positions[i].userId = doc.userId
              /\ positions[i].symbol = doc.symbol
              /\ positions[i].product = doc.product)

\* new PositionsModel(obj): the keys of obj that are schema paths, the
\* missing paths undefined or their defaults.
NewPositionsModel(obj) ==
    [userId |-> obj.userId,
     symbol |-> IF "symbol" \in DOMAIN obj THEN obj.symbol ELSE UndefStr,
     product |-> obj.product,
     quantity |-> Read(obj, "quantity"),
     averagePrice |-> Read(obj, "averagePrice"),
     lastTradedPrice |-> Read(obj, "lastTradedPrice"),
     buyQuantity |-> 0, sellQuantity |-> 0,
     buyAveragePrice |-> 0, sellAveragePrice |-> 0, multiplier |-> 1,
     profitLoss |-> 0, realizedProfitLoss |-> 0, unrealizedProfitLoss |-> 0]

PositionBody(product, name, qty, avg, price) ==
    [product |-> product, name |-> name, qty |-> qty, avg |-> avg,
     price |-> price]
PositionBodies ==
    {PositionBody(t, "INFY", 0 - 1, 1, p) : t \in {"MIS", "CNC"}, p \in Prices}
    \cup {PositionBody("mis", "INFY", 1, 1, 1), PositionBody("MIS", "", 1, 1, 1),
          PositionBody("MIS", "TCS", 1, 0, 1), PositionBody("MIS", "TCS", 1, 1, 0)}

positionValidation(body) ==
    /\ body.product \in {"CNC", "MIS", "NRML"}
    /\ body.name # ""
    /\ body.qty \in Int
    /\ body.avg >= 1
    /\ body.price >= 1

\* PositionsModel.findOne({_id, userId})
FindPosition(positionId, userId) ==
    IF positionId \in PositionIds /\ positions[positionId] # NoDoc
       /\ positions[positionId].userId = userId
    THEN positions[positionId] ELSE NoDoc

\* PositionsModel.findOne({userId, name, product}): name is not a schema
\* path; with strictQuery the filter is cut down to {userId, product},
\* without it no stored document has a name to match.
FindPositionByName(userId, name, product) ==
    IF strictQuery
    THEN {i \in PositionIds : /\ positions[i] # NoDoc
                              /\ positions[i].userId = userId
                              /\ positions[i].product = product}
    ELSE {}

\* GET /positions/:positionId
GetPosition(userId, positionId) ==
    LET position == FindPosition(positionId, userId) IN
    /\ pres' = IF position = NoDoc
               THEN PResponse("getPosition", userId, positionId, NoBody, 404,
                              "Position not found", NoHolding, NoMetrics, <<>>)
               ELSE WithDoc(PResponse("getPosition", userId, positionId, NoBody,
                                      200, "", NoHolding, NoMetrics, <<>>),
                            position)
    /\ UNCHANGED <<holdings, positions, strictQuery>>

\* POST /positions/add
AddPosition(userId, body) ==
    IF ~positionValidation(body)
    THEN /\ pres' = PResponse("addPosition", userId, "", body, 400,
                              "validation", NoHolding, NoMetrics, <<>>)
         /\ UNCHANGED <<holdings, positions, strictQuery>>
    ELSE IF FindPositionByName(userId, body.name, body.product) # {}
    THEN /\ pres' = PResponse("addPosition", userId, "", body, 400,
                              "Position exists", NoHolding, NoMetrics, <<>>)
         /\ UNCHANGED <<holdings, positions, strictQuery>>
    ELSE LET net == NetOf(body.qty, body.avg, body.price)
             newPosition ==
                 NewPositionsModel([userId |-> userId,
                                    product |-> ToUpperCase(body.product),
                                    name |-> body.name, qty |-> body.qty,
                                    avg |-> body.avg, price |-> body.price,
                                    net |-> net])
             free == {i \in PositionIds : positions[i] = NoDoc}
         IN IF PositionsSchemaValid(newPosition)
               /\ PositionsIndexFree(newPosition) /\ free # {}
            THEN /\ \E i \in free :
                      positions' = [positions EXCEPT
                                       ![i] = PositionsPreSave(newPosition)]
                 /\ pres' = PResponse("addPosition", userId, "", body, 201, "",
                               [qty |-> body.qty, avg |-> body.avg,
                                price |-> body.price, net |-> ToFixed(net),
                                day |-> DayOf(body.avg, body.price)],
                               NoMetrics, <<>>)
                 /\ UNCHANGED <<holdings, strictQuery>>
            ELSE /\ pres' = PResponse("addPosition", userId, "", body, 500,
                                      "Failed to add position",
                                      NoHolding, NoMetrics, <<>>)
                 /\ UNCHANGED <<holdings, positions, strictQuery>>

\* PUT /positions/:positionId: the assignments are properties of the loaded
\* document that are no schema paths; save() runs the pre('save') hook and
\* writes the schema paths.
UpdatePosition(userId, positionId, body) ==
    LET position == FindPosition(positionId, userId) IN
    IF ~positionValidation(body)
    THEN /\ pres' = PResponse("updatePosition", userId, positionId, body, 400,
                              "validation", NoHolding, NoMetrics, <<>>)
         /\ UNCHANGED <<holdings, positions, strictQuery>>
    ELSE IF position = NoDoc
    THEN /\ pres' = PResponse("updatePosition", userId, positionId, body, 404,
                              "Position not found", NoHolding, NoMetrics, <<>>)
         /\ UNCHANGED <<holdings, positions, strictQuery>>
    ELSE IF PositionsSchemaValid(position)
    THEN /\ positions' = [positions EXCEPT
                             ![positionId] = PositionsPreSave(position)]
         /\ pres' = PResponse("updatePosition", userId, positionId, body, 200,
                       "",
                       [qty |-> body.qty, avg |-> body.avg,
                        price |-> body.price,
                        net |-> ToFixed(NetOf(body.qty, body.avg, body.price)),
                        day |-> DayOf(body.avg, body.price)],
                       NoMetrics, <<>>)
         /\ UNCHANGED <<holdings, strictQuery>>
    ELSE /\ pres' = PResponse("updatePosition", userId, positionId, body, 500,
                              "Failed to update position",
                              NoHolding, NoMetrics, <<>>)
         /\ UNCHANGED <<holdings, positions, strictQuery>>

\* DELETE /positions/:positionId
DeletePosition(userId, positionId) ==
    LET position == FindPosition(positionId, userId) IN
    IF position = NoDoc
    THEN /\ pres' = PResponse("deletePosition", userId, positionId, NoBody, 404,
                              "Position not found", NoHolding, NoMetrics, <<>>)
         /\ UNCHANGED <<holdings, positions, strictQuery>>
    ELSE /\ positions' = [positions EXCEPT ![positionId] = NoDoc]
         /\ pres' = PResponse("deletePosition", userId, positionId, NoBody, 200,
                              "", NoHolding, NoMetrics, <<>>)
         /\ UNCHANGED <<holdings, strictQuery>>

\* POST /positions/:positionId/square-off: the document is deleted before
\* the response is built from position.net and position.day.
SquareOffPosition(userId, positionId) ==
    LET position == FindPosition(positionId, userId) IN
    IF position = NoDoc
    THEN /\ pres' = PResponse("squareOff", userId, positionId, NoBody, 404,
                              "Position not found", NoHolding, NoMetrics, <<>>)
         /\ UNCHANGED <<holdings, positions, strictQuery>>
    ELSE LET finalPnL == Read(position, "net")
             pnlPercentage == Read(position, "day")
         IN /\ positions' = [positions EXCEPT ![positionId] = NoDoc]
            /\ pres' = IF finalPnL = Undefined \/ pnlPercentage = Undefined
                       THEN PResponse("squareOff", userId, positionId, NoBody,
                                      500, "Failed to square off position",
                                      NoHolding, NoMetrics, <<>>)
                       ELSE PResponse("squareOff", userId, positionId, NoBody,
                                      200, "", NoHolding, NoMetrics, <<>>)
            /\ UNCHANGED <<holdings, strictQuery>>

\* The updates of a positions bulk request: positionId and price, either
\* may be missing (falsy).
PositionUpdateItems ==
    {[positionId |-> i, price |-> p] :
        i \in PositionIds \cup {""}, p \in {0, MaxPrice}}
PositionUpdateLists ==
    {<<>>} \cup {<<a>> : a \in PositionUpdateItems}
    \cup {<<a, b>> : a \in PositionUpdateItems, b \in PositionUpdateItems}
PositionBulkBodies ==
    {[isArray |-> TRUE, updates |-> l] : l \in PositionUpdateLists}
    \cup {[isArray |-> FALSE, updates |-> <<>>]}

\* POST /positions/bulk-update
BulkUpdatePositions(userId, body) ==
    LET updates == body.updates
        outcome(u) ==
            IF u.positionId = "" \/ Falsy(u.price) THEN "Invalid update data"
            ELSE IF FindPosition(u.positionId, userId) = NoDoc
            THEN "Position not found"
            ELSE "ok"
        outcomes == [k \in 1..Len(updates) |-> outcome(updates[k])]
        ops == SelectSeq(updates, LAMBDA u : outcome(u) = "ok")
        setOf(u) ==
            LET e == Entry(FindPosition(u.positionId, userId)) IN
            [price |-> u.price,
             net |-> JsMul(JsSub(u.price, e.avg), e.qty),
             day |-> PctFixed(JsSub(u.price, e.avg), e.avg)]
        written(i) ==
            LET mine == SelectSeq(ops, LAMBDA u : u.positionId = i) IN
            IF mine = <<>> THEN positions[i]
            ELSE BulkSet(positions[i], setOf(mine[Len(mine)]))
    IN IF ~body.isArray
       THEN /\ pres' = PResponse("bulkPositions", userId, "", NoBody, 400,
                                 "Invalid request", NoHolding, NoMetrics, <<>>)
            /\ UNCHANGED <<holdings, positions, strictQuery>>
       ELSE /\ positions' = [i \in PositionIds |-> written(i)]
            /\ pres' = PResponse("bulkPositions", userId, "", NoBody, 200, "",
                                 NoHolding, NoMetrics,
                                 SelectSeq(outcomes, LAMBDA o : o # "ok"))
            /\ UNCHANGED <<holdings, strictQuery>>

\* ------------------------------------------------------ stored documents
\* Documents of the two collections as save() accepts them.
StoredHolding(userId, symbol, quantity, averageBuyPrice, currentMarketPrice) ==
    NewHoldingsModel([userId |-> userId, symbol |-> symbol,
                      quantity |-> quantity,
                      averageBuyPrice |-> averageBuyPrice,
                      currentMarketPrice |-> currentMarketPrice])
StoredPosition(userId, symbol, product, quantity, averagePrice, lastTradedPrice) ==
    NewPositionsModel([userId |-> userId, symbol |-> symbol,
                       product |-> product, quantity |-> quantity,
                       averagePrice |-> averagePrice,
                       lastTradedPrice |-> lastTradedPrice])
SignedQuantities == {q \in (0 - MaxQty)..MaxQty : q # 0}

PortfolioIdle ==
    /\ holdings = [i \in HoldingIds |-> NoDoc]
    /\ positions = [i \in PositionIds |-> NoDoc]
    /\ strictQuery = TRUE
    /\ pres = NoPResponse

\* The aggregation variables while the routes run.
AggregateIdle ==
    /\ afirst = <<>> /\ alist = <<>>
    /\ abase = NoTotals /\ atotals = NoTotals

\* ================================================================ watchlists
\* The watchlist routes (src/unnamed/part_001) against WatchlistSchema
\* (src/unnamed/part_005).  The schema keeps the entries of a list in
\* `items`; the routes, POST /initialize excepted, use `stocks`.
WatchlistIds == {"w1", "w2"}
\* A path segment that is no ObjectId: /default/add, /default and /search
\* are answered by the routes with :watchlistId registered before them.
NoObjectId == "default"
WatchlistNames == {"Default", "Default Watchlist"}
StockExchanges == {"NSE", "BSE"}

\* const defaultStocks
defaultStocks ==
    <<[symbol |-> "INFY", exchange |-> "NSE"],
      [symbol |-> "TCS", exchange |-> "NSE"],
      [symbol |-> "WIPRO", exchange |-> "NSE"],
      [symbol |-> "RELIANCE", exchange |-> "NSE"],
      [symbol |-> "HDFCBANK", exchange |-> "NSE"]>>

\* String.prototype.toUpperCase / the uppercase option of a String path
UpperCase(str) ==
    CASE str = "infy" -> "INFY"
      [] OTHER -> str
\* String.prototype.trim / the trim() sanitizer of the validators
Trim(str) ==
    CASE str = " " -> ""
      [] OTHER -> str

\* The property under which the routes keep the entries of a watchlist.
StocksPath_Items == "items"
StocksPath == "stocks"

\* WatchlistItemSchema: a subdocument keeps symbol (uppercase) and exchange.
CastItem(s) == [symbol |-> UpperCase(s.symbol), exchange |-> s.exchange]
CastItems(list) == [k \in 1..Len(list) |-> CastItem(list[k])]
WatchlistItemValid(item) ==
    RequiredStr(item.symbol) /\ item.exchange \in StockExchanges

\* WatchlistSchema validation of a document
WatchlistSchemaValid(doc) ==
    /\ RequiredStr(doc.userId)
    /\ RequiredStr(doc.name)
    /\ \A k \in 1..Len(doc.items) : WatchlistItemValid(doc.items[k])

\* new WatchlistModel(obj): schema paths and defaults.
NewWatchlistModel(obj) ==
    [userId |-> obj.userId,
     name |-> IF "name" \in DOMAIN obj THEN Trim(obj.name) ELSE UndefStr,
     items |-> IF "items" \in DOMAIN obj THEN CastItems(obj.items) ELSE <<>>,
     isDefault |-> IF "isDefault" \in DOMAIN obj THEN obj.isDefault ELSE FALSE]

\* A pre('save') that does not touch the other watchlists.
WatchlistPreSave_NoUpdateMany(id, doc) == watchlists

\* WatchlistSchema.pre('save'): the collection after the hook of a save of
\* doc under _id id.
WatchlistPreSave(id, doc) ==
    IF doc.isDefault
    THEN [i \in WatchlistIds |->
            IF i # id /\ watchlists[i] # NoDoc /\ watchlists[i].userId = doc.userId
            THEN [watchlists[i] EXCEPT !.isDefault = FALSE]
            ELSE watchlists[i]]
    ELSE watchlists

\* The unique index on (userId, name).
WatchlistIndexFree(id, doc) ==
    \A i \in WatchlistIds \ {id} :
        watchlists[i] # NoDoc =>
            ~(watchlists[i].userId = doc.userId /\ watchlists[i].name = doc.name)

\* doc.save() under _id id: validation, the pre('save') hook, the write.
WatchlistSave(id, doc) ==
    IF ~WatchlistSchemaValid(doc)
    THEN [ok |-> FALSE, coll |-> watchlists]
    ELSE IF ~WatchlistIndexFree(id, doc)
    THEN [ok |-> FALSE, coll |-> WatchlistPreSave(id, doc)]
    ELSE [ok |-> TRUE,
          coll |-> [WatchlistPreSave(id, doc) EXCEPT ![id] = doc]]

\* Assignment to a property of a loaded document: persisted by save() when
\* the property is a schema path.
Assign(doc, path, value) ==
    IF path \in DOMAIN doc THEN [doc EXCEPT ![path] = value] ELSE doc

WResponse(op, userId, id, arg, status, error, doc) ==
    [op |-> op, userId |-> userId, id |-> id, arg |-> arg,
     status |-> status, error |-> error, doc |-> doc]
NoWResponse == WResponse("none", UndefStr, "", <<>>, 0, "", NoDoc)

\* WatchlistModel.findOne({_id, userId})
FindWatchlist(watchlistId, userId) ==
    IF watchlistId \in WatchlistIds /\ watchlists[watchlistId] # NoDoc
       /\ watchlists[watchlistId].userId = userId
    THEN watchlists[watchlistId] ELSE NoDoc

\* WatchlistModel.findOne({userId, name}): the ids of the matches.
FindWatchlistByName(userId, name) ==
    {i \in WatchlistIds :
        /\ watchlists[i] # NoDoc
        /\ watchlists[i].userId = userId
        /\ watchlists[i].name = name}

\* GET /watchlist
GetWatchlists(userId) ==
    LET mine == {i \in WatchlistIds :
                    watchlists[i] # NoDoc /\ watchlists[i].userId = userId}
    IN /\ wres' = IF \E i \in mine : StocksPath \notin DOMAIN watchlists[i]
                  THEN WResponse("list", userId, "", <<>>, 500,
                                 "Failed to fetch watchlists", NoDoc)
                  ELSE WResponse("list", userId, "", <<>>, 200, "", NoDoc)
       /\ UNCHANGED watchlists

\* GET /watchlist/:watchlistId
GetWatchlist(userId, watchlistId) ==
    LET watchlist == FindWatchlist(watchlistId, userId) IN
    /\ wres' = IF watchlistId = NoObjectId
               THEN WResponse("get", userId, watchlistId, <<>>, 500,
                              "Failed to fetch watchlist", NoDoc)
               ELSE IF watchlist = NoDoc
               THEN WResponse("get", userId, watchlistId, <<>>, 404,
                              "Watchlist not found", NoDoc)
               ELSE WResponse("get", userId, watchlistId, <<>>, 200, "",
                              watchlist)
    /\ UNCHANGED watchlists

\* The names of POST /create bodies.
CreateNames == WatchlistNames \cup {" "}

\* POST /watchlist/create (the first of the two routes of that path)
CreateWatchlist(userId, name) ==
    LET free == {i \in WatchlistIds : watchlists[i] = NoDoc}
        newWatchlist == NewWatchlistModel([userId |-> userId, name |-> name,
                                           stocks |-> <<>>])
    IN IF Trim(name) = ""
       THEN /\ wres' = WResponse("create", userId, "", <<>>, 400,
                                 "validation", NoDoc)
            /\ UNCHANGED watchlists
       ELSE IF FindWatchlistByName(userId, Trim(name)) # {}
       THEN /\ wres' = WResponse("create", userId, "", <<>>, 400,
                                 "Watchlist exists", NoDoc)
            /\ UNCHANGED watchlists
       ELSE /\ free # {}
            /\ \E i \in free :
                 LET saved == WatchlistSave(i, newWatchlist) IN
                 /\ watchlists' = saved.coll
                 /\ wres' = IF saved.ok
                            THEN WResponse("create", userId, i, <<>>, 201, "",
                                           newWatchlist)
                            ELSE WResponse("create", userId, "", <<>>, 500,
                                           "Failed to create watchlist", NoDoc)

\* The bodies of the add routes.
StockBody(name, symbol, exchange) ==
    [name |-> name, symbol |-> symbol, exchange |-> exchange]
StockBodies ==
    {StockBody("Infosys", "INFY", "NSE"), StockBody("Infosys", "infy", "NSE"),
     StockBody("Infosys", "INFY", "BSE"), StockBody("State Bank", "SBIN", "NSE"),
     StockBody("Infosys", "INFY", "MCX"), StockBody("Infosys", " ", "NSE")}

stockValidation(body) ==
    /\ Trim(body.name) # ""
    /\ Trim(body.symbol) # ""
    /\ body.exchange \in {"NSE", "BSE"}

\* POST /watchlist/:watchlistId/add
AddStock(userId, watchlistId, body) ==
    LET watchlist == FindWatchlist(watchlistId, userId)
        fail(status, error) ==
            /\ wres' = WResponse("add", userId, watchlistId, <<body>>,
                                 status, error, NoDoc)
            /\ UNCHANGED watchlists
    IN IF ~stockValidation(body) THEN fail(400, "validation")
       ELSE IF watchlistId = NoObjectId THEN fail(500, "Failed to add stock")
       ELSE IF watchlist = NoDoc THEN fail(404, "Watchlist not found")
       ELSE IF StocksPath \notin DOMAIN watchlist
       THEN fail(500, "Failed to add stock")
       ELSE LET stocks == watchlist[StocksPath] IN
            IF \E k \in 1..Len(stocks) :
                  stocks[k].symbol = body.symbol
                  /\ stocks[k].exchange = body.exchange
            THEN fail(400, "Stock exists")
            ELSE LET pushed == Assign(watchlist, StocksPath,
                                      Append(stocks, CastItem(body)))
                     saved == WatchlistSave(watchlistId, pushed)
                 IN /\ watchlists' = saved.coll
                    /\ wres' = IF saved.ok
                               THEN WResponse("add", userId, watchlistId,
                                              <<body>>, 201, "", pushed)
                               ELSE WResponse("add", userId, watchlistId,
                                              <<body>>, 500,
                                              "Failed to add stock", NoDoc)

\* list.splice(k, 1)
Splice(list, k) ==
    [j \in 1..(Len(list) - 1) |-> IF j < k THEN list[j] ELSE list[j + 1]]

\* DELETE /watchlist/:watchlistId/remove/:symbol
RemoveStock(userId, watchlistId, symbol) ==
    LET watchlist == FindWatchlist(watchlistId, userId)
        arg == <<StockBody("", symbol, "")>>
        fail(status, error) ==
            /\ wres' = WResponse("remove", userId, watchlistId, arg,
                                 status, error, NoDoc)
            /\ UNCHANGED watchlists
    IN IF watchlistId = NoObjectId THEN fail(500, "Failed to remove stock")
       ELSE IF watchlist = NoDoc THEN fail(404, "Watchlist not found")
       ELSE IF StocksPath \notin DOMAIN watchlist
       THEN fail(500, "Failed to remove stock")
       ELSE LET stocks == watchlist[StocksPath]
                hits == {k \in 1..Len(stocks) : stocks[k].symbol = symbol}
            IN IF hits = {} THEN fail(404, "Stock not found")
               ELSE LET stockIndex == CHOOSE k \in hits : \A j \in hits : k <= j
                        spliced == Assign(watchlist, StocksPath,
                                          Splice(stocks, stockIndex))
                        saved == WatchlistSave(watchlistId, spliced)
                    IN /\ watchlists' = saved.coll
                       /\ wres' = IF saved.ok
                                  THEN WResponse("remove", userId, watchlistId,
                                                 arg, 200, "", spliced)
                                  ELSE WResponse("remove", userId, watchlistId,
                                                 arg, 500,
                                                 "Failed to remove stock", NoDoc)

\* DELETE /watchlist/:watchlistId
DeleteWatchlist(userId, watchlistId) ==
    LET watchlist == FindWatchlist(watchlistId, userId) IN
    IF watchlistId = NoObjectId
    THEN /\ wres' = WResponse("delete", userId, watchlistId, <<>>, 500,
                              "Failed to delete watchlist", NoDoc)
         /\ UNCHANGED watchlists
    ELSE IF watchlist = NoDoc
    THEN /\ wres' = WResponse("delete", userId, watchlistId, <<>>, 404,
                              "Watchlist not found", NoDoc)
         /\ UNCHANGED watchlists
    ELSE /\ watchlists' = [watchlists EXCEPT ![watchlistId] = NoDoc]
         /\ wres' = WResponse("delete", userId, watchlistId, <<>>, 200, "",
                              NoDoc)

\* The stocks of PUT /reorder bodies: the default entries reversed, with
\* the last one left out, with the first one twice, none; or no array.
Reversed(list) == [k \in 1..Len(list) |-> list[Len(list) + 1 - k]]
NotAnArray == <<[symbol |-> "", exchange |-> "not an array"]>>
ReorderBodies ==
    {Reversed(defaultStocks), SubSeq(defaultStocks, 1, Len(defaultStocks) - 1),
     <<defaultStocks[1]>> \o defaultStocks, <<>>, NotAnArray}

\* `${s.symbol}:${s.exchange}` of the entries, as a Set
PairSet(list) == {<<list[k].symbol, list[k].exchange>> : k \in 1..Len(list)}

\* PUT /watchlist/:watchlistId/reorder
ReorderStocks(userId, watchlistId, stocks) ==
    LET watchlist == FindWatchlist(watchlistId, userId)
        fail(status, error) ==
            /\ wres' = WResponse("reorder", userId, watchlistId, stocks,
                                 status, error, NoDoc)
            /\ UNCHANGED watchlists
    IN IF stocks = NotAnArray THEN fail(400, "validation")
       ELSE IF watchlistId = NoObjectId
       THEN fail(500, "Failed to reorder watchlist")
       ELSE IF watchlist = NoDoc THEN fail(404, "Watchlist not found")
       ELSE IF StocksPath \notin DOMAIN watchlist
       THEN fail(500, "Failed to reorder watchlist")
       ELSE LET currentStocks == PairSet(watchlist[StocksPath])
                newStocks == PairSet(stocks)
            IN IF Cardinality(currentStocks) # Cardinality(newStocks)
               THEN fail(400, "Invalid stocks")
               ELSE IF \E k \in 1..Len(stocks) :
                         <<stocks[k].symbol, stocks[k].exchange>>
                             \notin currentStocks
               THEN fail(400, "Invalid stock")
               ELSE LET assigned == Assign(watchlist, StocksPath,
                                           CastItems(stocks))
                        saved == WatchlistSave(watchlistId, assigned)
                    IN /\ watchlists' = saved.coll
                       /\ wres' = IF saved.ok
                                  THEN WResponse("reorder", userId, watchlistId,
                                                 stocks, 200, "", assigned)
                                  ELSE WResponse("reorder", userId, watchlistId,
                                                 stocks, 500,
                                                 "Failed to reorder watchlist",
                                                 NoDoc)

\* DELETE /watchlist/default/stocks/:symbol?exchange=
RemoveDefaultStock(userId, symbol, exchange) ==
    LET found == FindWatchlistByName(userId, "Default")
        arg == <<StockBody("", symbol, exchange)>>
        fail(status, error) ==
            /\ wres' = WResponse("removeDefault", userId, "", arg,
                                 status, error, NoDoc)
            /\ UNCHANGED watchlists
    IN IF exchange = "" THEN fail(400, "Missing parameter")
       ELSE IF found = {} THEN fail(404, "Watchlist not found")
       ELSE LET id == CHOOSE i \in found : TRUE
                watchlist == watchlists[id]
            IN IF StocksPath \notin DOMAIN watchlist
               THEN fail(500, "Failed to remove stock")
               ELSE LET stocks == watchlist[StocksPath]
                        kept == SelectSeq(stocks, LAMBDA s :
                                    ~(s.symbol = symbol /\ s.exchange = exchange))
                    IN IF Len(kept) = Len(stocks)
                       THEN fail(404, "Stock not found")
                       ELSE LET filtered == Assign(watchlist, StocksPath, kept)
                                saved == WatchlistSave(id, filtered)
                            IN /\ watchlists' = saved.coll
                               /\ wres' = IF saved.ok
                                          THEN WResponse("removeDefault", userId,
                                                         id, arg, 200, "",
                                                         filtered)
                                          ELSE WResponse("removeDefault", userId,
                                                         id, arg, 500,
                                                         "Failed to remove stock",
                                                         NoDoc)

\* POST /watchlist/initialize
InitializeWatchlist(userId) ==
    LET free == {i \in WatchlistIds : watchlists[i] = NoDoc}
        defaultWatchlist ==
            NewWatchlistModel([userId |-> userId, name |-> "Default Watchlist",
                               isDefault |-> TRUE, items |-> defaultStocks])
    IN IF \E i \in WatchlistIds :
             /\ watchlists[i] # NoDoc
             /\ watchlists[i].userId = userId
             /\ watchlists[i].isDefault
       THEN /\ wres' = WResponse("initialize", userId, "", <<>>, 400,
                                 "Default watchlist exists", NoDoc)
            /\ UNCHANGED watchlists
       ELSE /\ free # {}
            /\ \E i \in free :
                 LET saved == WatchlistSave(i, defaultWatchlist) IN
                 /\ watchlists' = saved.coll
                 /\ wres' = IF saved.ok
                            THEN WResponse("initialize", userId, i, <<>>, 201,
                                           "", defaultWatchlist)
                            ELSE WResponse("initialize", userId, "", <<>>, 500,
                                           "Failed to initialize watchlist",
                                           NoDoc)

\* document.save() of the stored watchlist watchlistId after its isDefault
\* was set: the operation WatchlistSchema.pre('save') is written for.
SaveWatchlist(watchlistId, isDefault) ==
    /\ watchlists[watchlistId] # NoDoc
    /\ LET doc == [watchlists[watchlistId] EXCEPT !.isDefault = isDefault]
           saved == WatchlistSave(watchlistId, doc)
       IN /\ watchlists' = saved.coll
          /\ wres' = WResponse("save", doc.userId, watchlistId, <<>>,
                               IF saved.ok THEN 200 ELSE 500, "", doc)

WatchlistIdle ==
    /\ watchlists = [i \in WatchlistIds |-> NoDoc]
    /\ wres = NoWResponse

\* ------------------------------------------------- PositionsSchema methods
\* PositionsSchema.methods.updateMarketPrice
updateMarketPrice(doc, newPrice) ==
    LET priced == [doc EXCEPT !.lastTradedPrice = newPrice] IN
    [priced EXCEPT !.profitLoss = calculateProfitLoss(priced),
                   !.unrealizedProfitLoss = calculateUnrealizedProfitLoss(priced)]

\* position.updateMarketPrice(newPrice) followed by position.save()
TickPosition(positionId, newPrice) ==
    /\ positions[positionId] # NoDoc
    /\ LET position == updateMarketPrice(positions[positionId], newPrice) IN
       /\ PositionsSchemaValid(position)
       /\ positions' = [positions EXCEPT ![positionId] = PositionsPreSave(position)]
       /\ pres' = PResponse("updateMarketPrice", position.userId, positionId,
                            NoBody, 200, "", NoHolding, NoMetrics, <<>>)
    /\ UNCHANGED <<holdings, strictQuery>>

\* position.save() after a fill changed the buy and sell quantities
SavePosition(positionId, buyQuantity, sellQuantity) ==
    /\ positions[positionId] # NoDoc
    /\ LET position == [positions[positionId] EXCEPT
                           !.buyQuantity = buyQuantity,
                           !.sellQuantity = sellQuantity] IN
       /\ PositionsSchemaValid(position)
       /\ positions' = [positions EXCEPT ![positionId] = PositionsPreSave(position)]
       /\ pres' = PResponse("savePosition", position.userId, positionId,
                            NoBody, 200, "", NoHolding, NoMetrics, <<>>)
    /\ UNCHANGED <<holdings, strictQuery>>

\* Positions as save() stores them: the paths a fill sets, then the hook.
Multipliers == {1, 2}
FillQuantities == 0..MaxQty
FilledPositions ==
    {PositionsPreSave([StoredPosition("u1", "INFY", "MIS", bq - sq, a, p) EXCEPT
                          !.buyQuantity = bq, !.sellQuantity = sq,
                          !.buyAveragePrice = ba, !.sellAveragePrice = sa,
                          !.multiplier = m, !.realizedProfitLoss = r]) :
        bq \in FillQuantities, sq \in FillQuantities, a \in Prices, p \in Prices,
        ba \in Prices, sa \in Prices, m \in Multipliers, r \in {0, 1}}

\* --------------------------------------------------- HoldingsSchema methods
\* HoldingsSchema.methods.updateMarketPrice
HoldingsUpdateMarketPrice(doc, newPrice) ==
    LET currentValue == JsMul(doc.quantity, newPrice) IN
    [doc EXCEPT !.currentMarketPrice = newPrice,
                !.currentValue = currentValue,
                !.profitLoss = JsSub(currentValue, doc.investedAmount)]

\* holding.updateMarketPrice(newPrice) followed by holding.save(); the
\* pre('save') hook sets lastUpdated only.
TickHolding(holdingId, newPrice) ==
    /\ holdings[holdingId] # NoDoc
    /\ LET holding == HoldingsUpdateMarketPrice(holdings[holdingId], newPrice) IN
       /\ HoldingsSchemaValid(holding)
       /\ holdings' = [holdings EXCEPT ![holdingId] = holding]
       /\ pres' = PResponse("updateMarketPrice", holding.userId, holdingId,
                            NoBody, 200, "", NoHolding, NoMetrics, <<>>)
    /\ UNCHANGED <<positions, strictQuery>>

\* holding.quantity = quantity; holding.averageBuyPrice = averageBuyPrice;
\* holding.save(): the computed paths are defaults, set at construction.
ChangeHolding(holdingId, quantity, averageBuyPrice) ==
    /\ holdings[holdingId] # NoDoc
    /\ LET holding == [holdings[holdingId] EXCEPT
                          !.quantity = quantity,
                          !.averageBuyPrice = averageBuyPrice] IN
       /\ HoldingsSchemaValid(holding)
       /\ holdings' = [holdings EXCEPT ![holdingId] = holding]
       /\ pres' = PResponse("saveHolding", holding.userId, holdingId,
                            NoBody, 200, "", NoHolding, NoMetrics, <<>>)
    /\ UNCHANGED <<positions, strictQuery>>

\* ------------------------------------------- order requests, step by step
\* order.save() of a loaded document sends $set of the paths whose value
\* was changed since the load; the other paths keep what is stored.
SetModified(stored, loaded, changed) ==
    [f \in DOMAIN stored |->
        IF changed[f] # loaded[f] THEN changed[f] ELSE stored[f]]

\* PUT /:orderId up to the return of findOne: validation, lookup, status
\* check and the assignments to the loaded document.
LoadOrderToModify(r, userId, orderId, body) ==
    LET order == FindOrder(orderId, userId) IN
    /\ inflight[r] = NoRequest
    /\ IF ~orderValidation(body)
       THEN /\ ores' = Response("modify", userId, orderId, BaseBody, 400, "validation")
            /\ UNCHANGED inflight
       ELSE IF order = NoDoc
       THEN /\ ores' = Response("modify", userId, orderId, BaseBody, 404, "Order not found")
            /\ UNCHANGED inflight
       ELSE IF order.status \notin {"PENDING", "OPEN"}
       THEN /\ ores' = Response("modify", userId, orderId, BaseBody, 400, "Invalid operation")
            /\ UNCHANGED inflight
       ELSE /\ inflight' = [inflight EXCEPT ![r] =
                               [op |-> "modify", userId |-> userId, id |-> orderId,
                                loaded |-> order, changed |-> Patched(order, body)]]
            /\ UNCHANGED ores
    /\ UNCHANGED orders

\* POST /:orderId/cancel up to the return of findOne.
LoadOrderToCancel(r, userId, orderId) ==
    LET order == FindOrder(orderId, userId) IN
    /\ inflight[r] = NoRequest
    /\ IF order = NoDoc
       THEN /\ ores' = Response("cancel", userId, orderId, BaseBody, 404, "Order not found")
            /\ UNCHANGED inflight
       ELSE IF order.status \notin {"PENDING", "OPEN"}
       THEN /\ ores' = Response("cancel", userId, orderId, BaseBody, 400, "Invalid operation")
            /\ UNCHANGED inflight
       ELSE /\ inflight' = [inflight EXCEPT ![r] =
                               [op |-> "cancel", userId |-> userId, id |-> orderId,
                                loaded |-> order,
                                changed |-> [order EXCEPT !.status = "CANCELLED"]]]
            /\ UNCHANGED ores
    /\ UNCHANGED orders

\* await order.save() of either handler, and the response after it.
SaveLoadedOrder(r) ==
    LET q == inflight[r] IN
    /\ q.op \in {"modify", "cancel"}
    /\ inflight' = [inflight EXCEPT ![r] = NoRequest]
    /\ IF OrdersSaveOk(q.changed) /\ orders[q.id] # NoDoc
       THEN /\ orders' = [orders EXCEPT ![q.id] =
                             SetModified(orders[q.id], q.loaded, q.changed)]
            /\ ores' = Response(q.op, q.userId, q.id, BaseBody, 200, "")
       ELSE /\ ores' = Response(q.op, q.userId, q.id, BaseBody, 500,
                                IF q.op = "modify" THEN "Failed to modify order"
                                ELSE "Failed to cancel order")
            /\ UNCHANGED orders

\* ---------------------------------------------- POST /holdings/add, step by step
\* A newHolding.save() that neither validates nor meets the unique index.
HoldingsSave_Unchecked(doc) == TRUE

\* newHolding.save(): the validators, then the insert under the unique
\* index on (userId, symbol).
HoldingsSave(doc) == HoldingsSchemaValid(doc) /\ HoldingsIndexFree(doc)

\* POST /add up to the return of findOne: validation and the existence
\* check.
CheckHoldingExists(r, userId, body) ==
    /\ inflight[r] = NoRequest
    /\ IF ~holdingValidation(body)
       THEN /\ pres' = PResponse("add", userId, "", body, 400, "validation",
                                 NoHolding, NoMetrics, <<>>)
            /\ UNCHANGED inflight
       ELSE IF FindHoldingByName(userId, body.name) # {}
       THEN /\ pres' = PResponse("add", userId, "", body, 400, "Holding exists",
                                 NoHolding, NoMetrics, <<>>)
            /\ UNCHANGED inflight
       ELSE /\ inflight' = [inflight EXCEPT ![r] =
                               [op |-> "add", userId |-> userId, body |-> body]]
            /\ UNCHANGED pres
    /\ UNCHANGED <<holdings, positions, strictQuery>>

\* new HoldingsModel({...}), await newHolding.save() and the response.
InsertHolding(r) ==
    LET q == inflight[r]
        body == q.body
        net == NetOf(body.qty, body.avg, body.price)
        newHolding ==
            NewHoldingsModel([userId |-> q.userId, name |-> body.name,
                              qty |-> body.qty, avg |-> body.avg,
                              price |-> body.price, net |-> net])
        free == {i \in HoldingIds : holdings[i] = NoDoc}
    IN /\ q.op = "add"
       /\ inflight' = [inflight EXCEPT ![r] = NoRequest]
       /\ IF HoldingsSave(newHolding) /\ free # {}
          THEN \E i \in free :
                 /\ holdings' = [holdings EXCEPT ![i] = newHolding]
                 /\ pres' = PResponse("add", q.userId, i, body, 201, "",
                               [qty |-> body.qty, avg |-> body.avg,
                                price |-> body.price, net |-> ToFixed(net),
                                day |-> DayOf(body.avg, body.price)],
                               NoMetrics, <<>>)
          ELSE /\ pres' = PResponse("add", q.userId, "", body, 500,
                                    "Failed to add holding",
                                    NoHolding, NoMetrics, <<>>)
               /\ UNCHANGED holdings
       /\ UNCHANGED <<positions, strictQuery>>

\* ================================================================= users
\* The requests carry a valid name and date of birth; a person has one
\* email, one mobile number and one PAN.
Emails == {"asha@example.com", "test@example.com"}
MobileOf(email) == IF email = "test@example.com" THEN "9876543210" ELSE "9000000001"
PanOf(email) == IF email = "test@example.com" THEN "ABCDE1234F" ELSE "PQRST5678K"
Passwords == {"Test123!@#", "abc123"}
\* The length of a password of Passwords; the long one has a digit, a
\* lower-case letter, an upper-case letter and a special character.
PasswordLength(p) == IF p = "Test123!@#" THEN 10 ELSE 6

\* A string the password path can hold: a password as typed is <<p>>,
\* bcrypt.hash(data, salt) is the version and cost, the salt and the
\* hashed string.
Salts == {"s1", "s2"}
Plain(p) == <<p>>
BcryptHash(data, salt) == <<"$2a$10$", salt>> \o data
\* bcrypt.compare(data, hash): hash data with the salt of hash, and compare.
BcryptCompare(data, hash) ==
    /\ Len(hash) >= 2
    /\ hash[1] = "$2a$10$"
    /\ BcryptHash(data, hash[2]) = hash
\* value.length: a bcrypt hash has 60 characters.
StringLength(v) == IF Len(v) = 1 THEN PasswordLength(v[1]) ELSE 60

NoPassword == <<>>
NoToken == [userId |-> UndefStr, email |-> UndefStr, role |-> UndefStr]
UResponse(op, email, password, status, token, ownerId) ==
    [op |-> op, email |-> email, password |-> password, status |-> status,
     token |-> token, ownerId |-> ownerId]
NoUResponse == UResponse("none", UndefStr, "", 0, NoToken, UndefStr)
UsersIdle ==
    /\ accounts = [i \in Users |-> NoDoc]
    /\ tokens = {}
    /\ ures = NoUResponse

\* new UserModel({name, email, password, mobile, pan, dob, role, ...})
NewUserModel(email, password, mobile, pan) ==
    [email |-> email, password |-> password, mobile |-> mobile, pan |-> pan,
     role |-> "USER"]

\* The validators of the paths the requests set.
UserSchemaValid(doc) ==
    /\ RequiredStr(doc.email)
    /\ doc.password # NoPassword /\ StringLength(doc.password) >= 8
    /\ RequiredStr(doc.mobile)

\* UserSchema.pre('save'): hashes whatever the password path holds when
\* the path is modified (always, on a new document).
UserPreSave(doc, isModified, salt) ==
    IF ~isModified THEN doc
    ELSE [doc EXCEPT !.password = BcryptHash(doc.password, salt)]

\* The unique indexes on email and mobile, and the sparse one on pan.
UserIndexFree(coll, doc) ==
    \A i \in Users :
        coll[i] # NoDoc =>
            /\ coll[i].email # doc.email
            /\ coll[i].mobile # doc.mobile
            /\ (doc.pan = UndefStr \/ coll[i].pan # doc.pan)

FindUserByEmail(email) ==
    {i \in Users : accounts[i] # NoDoc /\ accounts[i].email = email}

\* POST /register
RegisterUser(email, password, salt) ==
    LET existingUser ==
            {i \in Users : /\ accounts[i] # NoDoc
                           /\ \/ accounts[i].email = email
                              \/ accounts[i].mobile = MobileOf(email)
                              \/ accounts[i].pan = PanOf(email)}
        newUser == NewUserModel(email, Plain(password), MobileOf(email), PanOf(email))
        free == {i \in Users : accounts[i] = NoDoc}
    IN /\ IF PasswordLength(password) < 8
          THEN /\ ures' = UResponse("register", email, password, 400, NoToken, UndefStr)
               /\ UNCHANGED accounts
          ELSE IF existingUser # {}
          THEN /\ ures' = UResponse("register", email, password, 400, NoToken, UndefStr)
               /\ UNCHANGED accounts
          ELSE IF UserSchemaValid(newUser) /\ UserIndexFree(accounts, newUser) /\ free # {}
          THEN \E i \in free :
                  /\ accounts' = [accounts EXCEPT ![i] = UserPreSave(newUser, TRUE, salt)]
                  /\ ures' = UResponse("register", email, password, 201, NoToken, UndefStr)
          ELSE /\ ures' = UResponse("register", email, password, 500, NoToken, UndefStr)
               /\ UNCHANGED accounts
       /\ UNCHANGED tokens

\* POST /login: jwt.sign({userId: user._id, email, role})
LoginUser(email, password) ==
    LET found == FindUserByEmail(email) IN
    IF PasswordLength(password) < 6
    THEN /\ ures' = UResponse("login", email, password, 400, NoToken, UndefStr)
         /\ UNCHANGED <<accounts, tokens>>
    ELSE IF found = {}
    THEN /\ ures' = UResponse("login", email, password, 401, NoToken, UndefStr)
         /\ UNCHANGED <<accounts, tokens>>
    ELSE \E i \in found :
           IF ~BcryptCompare(Plain(password), accounts[i].password)
           THEN /\ ures' = UResponse("login", email, password, 401, NoToken, UndefStr)
                /\ UNCHANGED <<accounts, tokens>>
           ELSE LET token == [userId |-> i, email |-> accounts[i].email,
                              role |-> accounts[i].role]
                IN /\ tokens' = tokens \cup {token}
                   /\ ures' = UResponse("login", email, password, 200, token, UndefStr)
                   /\ UNCHANGED accounts

\* POST /reset-password: hashes newPassword, assigns it, and save() runs
\* the pre('save') hook on the modified path.
ResetPassword(email, newPassword, salt, hookSalt) ==
    LET found == FindUserByEmail(email) IN
    /\ IF found = {}
       THEN /\ ures' = UResponse("reset-password", email, newPassword, 404, NoToken, UndefStr)
            /\ UNCHANGED accounts
       ELSE \E i \in found :
              LET hashedPassword == BcryptHash(Plain(newPassword), salt)
                  user == [accounts[i] EXCEPT !.password = hashedPassword]
              IN IF UserSchemaValid(user)
                 THEN /\ accounts' = [accounts EXCEPT ![i] = UserPreSave(user, TRUE, hookSalt)]
                      /\ ures' = UResponse("reset-password", email, newPassword, 200,
                                           NoToken, UndefStr)
                 ELSE /\ ures' = UResponse("reset-password", email, newPassword, 500,
                                           NoToken, UndefStr)
                      /\ UNCHANGED accounts
    /\ UNCHANGED tokens

\* POST /create-test-user: deletes the test user, hashes the known
\* password, and saves a new document, which the hook hashes again.
CreateTestUser(salt, hookSalt) ==
    LET email == "test@example.com"
        password == "Test123!@#"
        deleted == [i \in Users |->
                       IF accounts[i] # NoDoc /\ accounts[i].email = email
                       THEN NoDoc ELSE accounts[i]]
        hashedPassword == BcryptHash(Plain(password), salt)
        newUser == NewUserModel(email, hashedPassword, "9876543210", UndefStr)
        free == {i \in Users : deleted[i] = NoDoc}
    IN /\ IF UserSchemaValid(newUser) /\ UserIndexFree(deleted, newUser) /\ free # {}
          THEN \E i \in free :
                  /\ accounts' = [deleted EXCEPT ![i] = UserPreSave(newUser, TRUE, hookSalt)]
                  /\ ures' = UResponse("create-test-user", email, password, 201,
                                       NoToken, UndefStr)
          ELSE /\ accounts' = deleted
               /\ ures' = UResponse("create-test-user", email, password, 500,
                                    NoToken, UndefStr)
       /\ UNCHANGED tokens

\* The Authorization header of a request: none, a token that does not
\* verify, an expired one, or one that was issued and verifies.
Headers ==
    {[kind |-> k, token |-> NoToken] : k \in {"missing", "invalid", "expired"}}
    \cup {[kind |-> "issued", token |-> t] : t \in tokens}

\* const userId = req.user.id, as the protected routes read it.
ReqUserId(user) == IF "id" \in DOMAIN user THEN user.id ELSE UndefStr

\* authenticateToken, then the first statement of a protected route:
\* req.user is the decoded payload.
AuthenticateToken(header) ==
    /\ ures' =
         IF header.kind = "missing"
         THEN UResponse("authenticate", UndefStr, "", 401, NoToken, UndefStr)
         ELSE IF header.kind = "expired"
         THEN UResponse("authenticate", UndefStr, "", 401, NoToken, UndefStr)
         ELSE IF header.kind = "invalid"
         THEN UResponse("authenticate", UndefStr, "", 403, NoToken, UndefStr)
         ELSE LET user == header.token IN
              UResponse("authenticate", user.email, "", 200, user, ReqUserId(user))
    /\ UNCHANGED <<accounts, tokens>>

\* ------------------------------------ POST /holdings/bulk-update, step by step
\* The request with one update: the loop up to the return of its findOne.
\* Without an operation to write, the handler answers at once.
ReadHoldingForBulk(r, userId, update) ==
    LET holding == FindHolding(update.holdingId, userId)
        e == Entry(holding)
    IN /\ inflight[r] = NoRequest
       /\ IF update.holdingId = "" \/ Falsy(update.price)
          THEN /\ pres' = PResponse("bulk", userId, "", NoBody, 200, "", NoHolding,
                                    NoMetrics, <<"Invalid update data">>)
               /\ UNCHANGED inflight
          ELSE IF holding = NoDoc
          THEN /\ pres' = PResponse("bulk", userId, "", NoBody, 200, "", NoHolding,
                                    NoMetrics, <<"Holding not found">>)
               /\ UNCHANGED inflight
          ELSE /\ inflight' = [inflight EXCEPT ![r] =
                                  [op |-> "bulk", userId |-> userId,
                                   holdingId |-> update.holdingId,
                                   set |-> [price |-> update.price,
                                            net |-> JsMul(JsSub(update.price, e.avg), e.qty),
                                            day |-> PctFixed(JsSub(update.price, e.avg), e.avg)]]]
               /\ UNCHANGED pres
       /\ UNCHANGED <<holdings, positions, strictQuery>>

\* await HoldingsModel.bulkWrite(bulkOps) with the filter {_id, userId},
\* and the response.
WriteHoldingBulk(r) ==
    LET q == inflight[r] IN
    /\ q.op = "bulk"
    /\ inflight' = [inflight EXCEPT ![r] = NoRequest]
    /\ holdings' = [i \in HoldingIds |->
                       IF i = q.holdingId /\ holdings[i] # NoDoc
                          /\ holdings[i].userId = q.userId
                       THEN BulkSet(holdings[i], q.set) ELSE holdings[i]]
    /\ pres' = PResponse("bulk", q.userId, "", NoBody, 200, "", NoHolding,
                         NoMetrics, <<>>)
    /\ UNCHANGED <<positions, strictQuery>>

\* ======================================================== specifications
OrdersIdle == orders = [i \in OrderIds |-> NoDoc] /\ ores = NoResponse

\* ------------------------------------------------------------- SpecOrders
\* The order routes over a collection that holds any one document save()
\* accepts.
OrdersInit ==
    /\ \E d \in StoredOrders \cup {NoDoc} :
          orders = [i \in OrderIds |-> IF i = "o1" THEN d ELSE NoDoc]
    /\ ores = NoResponse
    /\ PortfolioIdle
    /\ AggregateIdle
    /\ RequestsIdle
    /\ UsersIdle
    /\ WatchlistIdle

OrdersNext ==
    \/ \E u \in Users, b \in SampleBodies :
          PlaceOrder(u, b) /\ UNCHANGED <<pvars, avars, wvars, cvars, uvars>>
    \/ \E u \in Users, i \in OrderIds :
          CancelOrder(u, i) /\ UNCHANGED <<pvars, avars, wvars, cvars, uvars>>
    \/ \E u \in Users, i \in OrderIds, b \in ModifyBodies :
          ModifyOrder(u, i, b) /\ UNCHANGED <<pvars, avars, wvars, cvars, uvars>>

SpecOrders == OrdersInit /\ [][OrdersNext]_vars

\* ------------------------------------------------------------- SpecCreate
\* POST /new alone, on an empty collection, over every body.
CreateInit ==
    /\ OrdersIdle
    /\ PortfolioIdle
    /\ AggregateIdle
    /\ RequestsIdle
    /\ UsersIdle
    /\ WatchlistIdle

CreateNext ==
    \E u \in Users, b \in Bodies : PlaceOrder(u, b) /\ UNCHANGED <<pvars, avars, wvars, cvars, uvars>>

SpecCreate == CreateInit /\ [][CreateNext]_vars

\* ------------------------------------------------------------ SpecHoldings
HoldingsInit ==
    /\ \E d1 \in {NoDoc} \cup {StoredHolding("u1", "INFY", q, a, p) :
                                 q \in Quantities, a \in Prices, p \in Prices},
          d2 \in {NoDoc} \cup {StoredHolding("u1", "TCS", 1, 1, p) : p \in Prices} :
          holdings = [i \in HoldingIds |-> IF i = "h1" THEN d1 ELSE d2]
    /\ positions = [i \in PositionIds |-> NoDoc]
    /\ strictQuery \in BOOLEAN
    /\ pres = NoPResponse
    /\ OrdersIdle
    /\ AggregateIdle
    /\ RequestsIdle
    /\ UsersIdle
    /\ WatchlistIdle

HoldingsNext ==
    \/ \E u \in Users, b \in HoldingBodies :
          AddHolding(u, b) /\ UNCHANGED <<ovars, avars, wvars, cvars, uvars>>
    \/ \E u \in Users : GetHoldings(u) /\ UNCHANGED <<ovars, avars, wvars, cvars, uvars>>
    \/ \E u \in Users, h \in HoldingIds, b \in HoldingBodies :
          UpdateHolding(u, h, b) /\ UNCHANGED <<ovars, avars, wvars, cvars, uvars>>
    \/ \E u \in Users, h \in HoldingIds :
          DeleteHolding(u, h) /\ UNCHANGED <<ovars, avars, wvars, cvars, uvars>>
    \/ \E u \in Users, b \in BulkBodies :
          BulkUpdateHoldings(u, b) /\ UNCHANGED <<ovars, avars, wvars, cvars, uvars>>

SpecHoldings == HoldingsInit /\ [][HoldingsNext]_vars

\* --------------------------------------------------------------- SpecLists
ListsInit ==
    /\ \E d1 \in {NoDoc} \cup {StoredHolding(u, "INFY", q, a, p) :
                                 u \in Users, q \in Quantities,
                                 a \in Prices, p \in Prices},
          d2 \in {NoDoc} \cup {StoredHolding(u, "TCS", 1, 1, p) :
                                 u \in Users, p \in Prices} :
          holdings = [i \in HoldingIds |-> IF i = "h1" THEN d1 ELSE d2]
    /\ \E d1 \in {NoDoc} \cup {d \in {StoredPosition(u, "INFY", t, q, 1, p) :
                                         u \in Users, t \in {"MIS", "CNC"},
                                         q \in SignedQuantities, p \in Prices} :
                                    PositionsSchemaValid(d)},
          d2 \in {NoDoc} \cup {StoredPosition(u, "TCS", "MIS", 0 - 1, 1, 1) :
                                 u \in Users} :
          positions = [i \in PositionIds |-> IF i = "p1" THEN d1 ELSE d2]
    /\ strictQuery \in BOOLEAN
    /\ pres = NoPResponse
    /\ OrdersIdle
    /\ AggregateIdle
    /\ RequestsIdle
    /\ UsersIdle
    /\ WatchlistIdle

ListsNext ==
    \/ \E u \in Users : GetHoldings(u) /\ UNCHANGED <<ovars, avars, wvars, cvars, uvars>>
    \/ \E u \in Users : GetPositions(u) /\ UNCHANGED <<ovars, avars, wvars, cvars, uvars>>
    \/ \E u \in Users, t \in ProductParams :
          GetPositionsByProduct(u, t) /\ UNCHANGED <<ovars, avars, wvars, cvars, uvars>>

SpecLists == ListsInit /\ [][ListsNext]_vars

\* ----------------------------------------------------------- SpecAggregate
\* The aggregation as a function of the entry list: the entries are drawn
\* from amounts small and large against the precision, long and short,
\* and the entry of a loaded document, whose fields all read undefined.
BigAmount == Pow2(Precision)
Entries ==
    {[avg |-> a, qty |-> q, price |-> 1, net |-> IF q > 0 THEN 0 - 1 ELSE BigAmount] :
        a \in {1, BigAmount}, q \in {1, 0 - 1}}
    \cup {Entry(NoDoc)}
EntryLists ==
    UNION {[1..n -> Entries] : n \in 0..MaxLen}

AggregateInit ==
    /\ afirst \in EntryLists
    /\ alist = afirst
    /\ abase = NoTotals
    /\ atotals = NoTotals
    /\ OrdersIdle
    /\ PortfolioIdle
    /\ WatchlistIdle
    /\ RequestsIdle
    /\ UsersIdle

\* The totals of the list as handed in.
Aggregate ==
    /\ abase = NoTotals
    /\ abase' = Totals(alist)
    /\ atotals' = Totals(alist)
    /\ UNCHANGED <<afirst, alist>>

\* The totals of the list with two neighbours exchanged.
Shuffle(i) ==
    /\ abase # NoTotals
    /\ alist' = [alist EXCEPT ![i] = alist[i + 1], ![i + 1] = alist[i]]
    /\ atotals' = Totals(alist')
    /\ UNCHANGED <<afirst, abase>>

AggregateNext ==
    \/ Aggregate /\ UNCHANGED <<ovars, pvars, wvars, cvars, uvars>>
    \/ \E i \in 1..(Len(alist) - 1) : Shuffle(i) /\ UNCHANGED <<ovars, pvars, wvars, cvars, uvars>>

SpecAggregate == AggregateInit /\ [][AggregateNext]_vars

\* --------------------------------------------------------- SpecWatchlists
\* The watchlist routes from an empty collection.
WatchlistsInit ==
    /\ WatchlistIdle
    /\ OrdersIdle
    /\ PortfolioIdle
    /\ AggregateIdle
    /\ RequestsIdle
    /\ UsersIdle

WatchlistsNext ==
    \/ \E u \in Users : GetWatchlists(u) /\ UNCHANGED <<ovars, pvars, avars, cvars, uvars>>
    \/ \E u \in Users, w \in WatchlistIds \cup {NoObjectId} :
          GetWatchlist(u, w) /\ UNCHANGED <<ovars, pvars, avars, cvars, uvars>>
    \/ \E u \in Users, n \in CreateNames :
          CreateWatchlist(u, n) /\ UNCHANGED <<ovars, pvars, avars, cvars, uvars>>
    \/ \E u \in Users, w \in WatchlistIds \cup {NoObjectId}, b \in StockBodies :
          AddStock(u, w, b) /\ UNCHANGED <<ovars, pvars, avars, cvars, uvars>>
    \/ \E u \in Users, w \in WatchlistIds, s \in {"INFY", "SBIN"} :
          RemoveStock(u, w, s) /\ UNCHANGED <<ovars, pvars, avars, cvars, uvars>>
    \/ \E u \in Users, w \in WatchlistIds :
          DeleteWatchlist(u, w) /\ UNCHANGED <<ovars, pvars, avars, cvars, uvars>>
    \/ \E u \in Users, w \in WatchlistIds, l \in ReorderBodies :
          ReorderStocks(u, w, l) /\ UNCHANGED <<ovars, pvars, avars, cvars, uvars>>
    \/ \E u \in Users, s \in {"INFY", "SBIN"}, x \in {"NSE", ""} :
          RemoveDefaultStock(u, s, x) /\ UNCHANGED <<ovars, pvars, avars, cvars, uvars>>
    \/ \E u \in Users : InitializeWatchlist(u) /\ UNCHANGED <<ovars, pvars, avars, cvars, uvars>>

SpecWatchlists == WatchlistsInit /\ [][WatchlistsNext]_vars

\* ----------------------------------------------------------- SpecDefaults
\* Creating, initializing, saving and deleting watchlists.
DefaultsInit ==
    /\ WatchlistIdle
    /\ OrdersIdle
    /\ PortfolioIdle
    /\ AggregateIdle
    /\ RequestsIdle
    /\ UsersIdle

DefaultsNext ==
    \/ \E u \in Users, n \in CreateNames :
          CreateWatchlist(u, n) /\ UNCHANGED <<ovars, pvars, avars, cvars, uvars>>
    \/ \E u \in Users : InitializeWatchlist(u) /\ UNCHANGED <<ovars, pvars, avars, cvars, uvars>>
    \/ \E w \in WatchlistIds, d \in BOOLEAN :
          SaveWatchlist(w, d) /\ UNCHANGED <<ovars, pvars, avars, cvars, uvars>>
    \/ \E u \in Users, w \in WatchlistIds :
          DeleteWatchlist(u, w) /\ UNCHANGED <<ovars, pvars, avars, cvars, uvars>>

SpecDefaults == DefaultsInit /\ [][DefaultsNext]_vars

\* ---------------------------------------------------------------- SpecKeys
\* The three routes that add an entity under a key, on collections that
\* hold entities of the caller.
KeyHoldingBodies ==
    {HoldingBody(s, 1, 1, 1) : s \in Symbols} \cup {HoldingBody("", 1, 1, 1)}
KeyPositionBodies ==
    {PositionBody(t, s, 0 - 1, 1, 1) : t \in {"MIS", "CNC"}, s \in Symbols}
    \cup {PositionBody("mis", "INFY", 1, 1, 1)}

KeysInit ==
    /\ \E d1 \in {NoDoc, StoredHolding("u1", "INFY", 1, 1, 1)} :
          holdings = [i \in HoldingIds |-> IF i = "h1" THEN d1 ELSE NoDoc]
    /\ \E d1 \in {NoDoc, StoredPosition("u1", "INFY", "MIS", 0 - 1, 1, 1)} :
          positions = [i \in PositionIds |-> IF i = "p1" THEN d1 ELSE NoDoc]
    /\ strictQuery \in BOOLEAN
    /\ pres = NoPResponse
    /\ WatchlistIdle
    /\ OrdersIdle
    /\ AggregateIdle
    /\ RequestsIdle
    /\ UsersIdle

KeysNext ==
    \/ \E u \in Users, b \in KeyHoldingBodies :
          AddHolding(u, b) /\ UNCHANGED <<ovars, avars, wvars, cvars, uvars>>
    \/ \E u \in Users, b \in KeyPositionBodies :
          AddPosition(u, b) /\ UNCHANGED <<ovars, avars, wvars, cvars, uvars>>
    \/ \E u \in Users, n \in CreateNames :
          CreateWatchlist(u, n) /\ UNCHANGED <<ovars, pvars, avars, cvars, uvars>>

SpecKeys == KeysInit /\ [][KeysNext]_vars

\* ---------------------------------------------------------------- SpecBulk
\* The two bulk price updates on collections that hold entities of both
\* users.
BulkInit ==
    /\ \E d2 \in {NoDoc} \cup {StoredHolding(u, "TCS", 1, 1, 1) : u \in Users} :
          holdings = [i \in HoldingIds |->
                         IF i = "h1" THEN StoredHolding("u1", "INFY", 1, 1, 1)
                         ELSE d2]
    /\ \E d2 \in {NoDoc} \cup {StoredPosition(u, "TCS", "MIS", 0 - 1, 1, 1) :
                                 u \in Users} :
          positions = [i \in PositionIds |->
                          IF i = "p1"
                          THEN StoredPosition("u1", "INFY", "MIS", 1, 1, 1)
                          ELSE d2]
    /\ strictQuery \in BOOLEAN
    /\ pres = NoPResponse
    /\ WatchlistIdle
    /\ OrdersIdle
    /\ AggregateIdle
    /\ RequestsIdle
    /\ UsersIdle

BulkNext ==
    \/ \E u \in Users, b \in BulkBodies :
          BulkUpdateHoldings(u, b) /\ UNCHANGED <<ovars, avars, wvars, cvars, uvars>>
    \/ \E u \in Users, b \in PositionBulkBodies :
          BulkUpdatePositions(u, b) /\ UNCHANGED <<ovars, avars, wvars, cvars, uvars>>

SpecBulk == BulkInit /\ [][BulkNext]_vars

\* ----------------------------------------------------------- SpecIsolation
\* The requests that name an entity by id, the bulk updates and the lists,
\* by both users, on collections whose first entity belongs to one of them.
\* Only the response to the request handled last is kept.
IsolationOrders(owner) ==
    {[d EXCEPT !.userId = owner] :
        d \in {d \in StoredOrders : /\ d.status = "PENDING"
                                    /\ d.orderType = "LIMIT"
                                    /\ d.validity = "DAY"
                                    /\ d.quantity = 1 /\ d.price = 1
                                    /\ d.triggerPrice = Undefined}}
IsolationInit ==
    \E owner \in Users :
        /\ \E d \in IsolationOrders(owner) :
              orders = [i \in OrderIds |-> IF i = "o1" THEN d ELSE NoDoc]
        /\ holdings = [i \in HoldingIds |->
                          IF i = "h1" THEN StoredHolding(owner, "INFY", 1, 1, 1)
                          ELSE NoDoc]
        /\ positions = [i \in PositionIds |->
                           IF i = "p1"
                           THEN StoredPosition(owner, "INFY", "MIS", 1, 1, 1)
                           ELSE NoDoc]
        /\ watchlists = [i \in WatchlistIds |->
                            IF i = "w1"
                            THEN NewWatchlistModel([userId |-> owner,
                                                    name |-> "Default",
                                                    items |-> defaultStocks])
                            ELSE NoDoc]
        /\ strictQuery \in BOOLEAN
        /\ ores = NoResponse
        /\ pres = NoPResponse
        /\ wres = NoWResponse
        /\ AggregateIdle
        /\ RequestsIdle
        /\ UsersIdle

OrderRequest ==
    /\ pres' = NoPResponse /\ wres' = NoWResponse
    /\ UNCHANGED <<holdings, positions, strictQuery, watchlists, avars, cvars, uvars>>
PortfolioRequest ==
    /\ ores' = NoResponse /\ wres' = NoWResponse
    /\ UNCHANGED <<orders, watchlists, avars, cvars, uvars>>
WatchlistRequest ==
    /\ ores' = NoResponse /\ pres' = NoPResponse
    /\ UNCHANGED <<orders, holdings, positions, strictQuery, avars, cvars, uvars>>

IsolationBodies == {b \in ModifyBodies : b.price = MaxPrice /\ b.validity = "DAY"
                                         /\ b.triggerPrice = Undefined}
IsolationBulk(update) == [isArray |-> TRUE, updates |-> <<update>>]

IsolationNext ==
    \/ \E u \in Users, i \in OrderIds : GetOrder(u, i) /\ OrderRequest
    \/ \E u \in Users, i \in OrderIds : CancelOrder(u, i) /\ OrderRequest
    \/ \E u \in Users, i \in OrderIds, b \in IsolationBodies :
          ModifyOrder(u, i, b) /\ OrderRequest
    \/ \E u \in Users : GetHoldings(u) /\ PortfolioRequest
    \/ \E u \in Users, i \in HoldingIds : GetHolding(u, i) /\ PortfolioRequest
    \/ \E u \in Users, i \in HoldingIds, b \in KeyHoldingBodies :
          UpdateHolding(u, i, b) /\ PortfolioRequest
    \/ \E u \in Users, i \in HoldingIds : DeleteHolding(u, i) /\ PortfolioRequest
    \/ \E u \in Users, i \in HoldingIds :
          BulkUpdateHoldings(u, IsolationBulk([holdingId |-> i, price |-> MaxPrice]))
          /\ PortfolioRequest
    \/ \E u \in Users : GetPositions(u) /\ PortfolioRequest
    \/ \E u \in Users, i \in PositionIds : GetPosition(u, i) /\ PortfolioRequest
    \/ \E u \in Users, i \in PositionIds, b \in KeyPositionBodies :
          UpdatePosition(u, i, b) /\ PortfolioRequest
    \/ \E u \in Users, i \in PositionIds : DeletePosition(u, i) /\ PortfolioRequest
    \/ \E u \in Users, i \in PositionIds :
          SquareOffPosition(u, i) /\ PortfolioRequest
    \/ \E u \in Users, i \in PositionIds :
          BulkUpdatePositions(u, IsolationBulk([positionId |-> i, price |-> MaxPrice]))
          /\ PortfolioRequest
    \/ \E u \in Users, i \in WatchlistIds : GetWatchlist(u, i) /\ WatchlistRequest
    \/ \E u \in Users, i \in WatchlistIds :
          AddStock(u, i, StockBody("State Bank", "SBIN", "NSE")) /\ WatchlistRequest
    \/ \E u \in Users, i \in WatchlistIds :
          RemoveStock(u, i, "INFY") /\ WatchlistRequest
    \/ \E u \in Users, i \in WatchlistIds :
          ReorderStocks(u, i, Reversed(defaultStocks)) /\ WatchlistRequest
    \/ \E u \in Users, i \in WatchlistIds : DeleteWatchlist(u, i) /\ WatchlistRequest

SpecIsolation == IsolationInit /\ [][IsolationNext]_vars

\* ------------------------------------------------------------- SpecPnL
\* Saves and price updates of one stored position.
PnLInit ==
    /\ \E d \in FilledPositions :
          positions = [i \in PositionIds |-> IF i = "p1" THEN d ELSE NoDoc]
    /\ holdings = [i \in HoldingIds |-> NoDoc]
    /\ strictQuery = TRUE
    /\ pres = NoPResponse
    /\ OrdersIdle
    /\ AggregateIdle
    /\ RequestsIdle
    /\ UsersIdle
    /\ WatchlistIdle

PnLNext ==
    \/ \E i \in PositionIds, p \in Prices :
          TickPosition(i, p) /\ UNCHANGED <<ovars, avars, wvars, cvars, uvars>>
    \/ \E i \in PositionIds, bq \in FillQuantities, sq \in FillQuantities :
          SavePosition(i, bq, sq) /\ UNCHANGED <<ovars, avars, wvars, cvars, uvars>>

SpecPnL == PnLInit /\ [][PnLNext]_vars

\* ----------------------------------------------------------- SpecDerived
\* A holding from its construction through changes of quantity and
\* average buy price and price updates.
DerivedInit ==
    /\ \E d \in {StoredHolding(u, "INFY", q, a, p) :
                    u \in Users, q \in Quantities, a \in Prices, p \in Prices} :
          holdings = [i \in HoldingIds |-> IF i = "h1" THEN d ELSE NoDoc]
    /\ positions = [i \in PositionIds |-> NoDoc]
    /\ strictQuery = TRUE
    /\ pres = NoPResponse
    /\ OrdersIdle
    /\ AggregateIdle
    /\ RequestsIdle
    /\ UsersIdle
    /\ WatchlistIdle

DerivedNext ==
    \/ \E i \in HoldingIds, p \in Prices :
          TickHolding(i, p) /\ UNCHANGED <<ovars, avars, wvars, cvars, uvars>>
    \/ \E i \in HoldingIds, q \in 0..MaxQty + 1, a \in Prices :
          ChangeHolding(i, q, a) /\ UNCHANGED <<ovars, avars, wvars, cvars, uvars>>

SpecDerived == DerivedInit /\ [][DerivedNext]_vars

\* -------------------------------------------------------------- SpecRace
\* Modify and cancel requests on one stored order, interleaved at their
\* awaits.
RaceBodies == {b \in ModifyBodies : b.triggerPrice = Undefined /\ b.price # Undefined}

RaceInit ==
    /\ \E d \in {o \in StoredOrders : o.userId = "u1" /\ o.validity = "DAY"} :
          orders = [i \in OrderIds |-> IF i = "o1" THEN d ELSE NoDoc]
    /\ ores = NoResponse
    /\ RequestsIdle
    /\ UsersIdle
    /\ PortfolioIdle
    /\ AggregateIdle
    /\ WatchlistIdle

RaceNext ==
    \/ \E r \in RequestIds, u \in Users, i \in OrderIds, b \in RaceBodies :
          LoadOrderToModify(r, u, i, b) /\ UNCHANGED <<pvars, avars, wvars, uvars>>
    \/ \E r \in RequestIds, u \in Users, i \in OrderIds :
          LoadOrderToCancel(r, u, i) /\ UNCHANGED <<pvars, avars, wvars, uvars>>
    \/ \E r \in RequestIds :
          SaveLoadedOrder(r) /\ UNCHANGED <<pvars, avars, wvars, uvars>>

SpecRace == RaceInit /\ [][RaceNext]_vars

\* -------------------------------------------------------------- SpecAdds
\* Add requests interleaved at their awaits, over a collection that holds
\* at most one document.
AddBodies ==
    {HoldingBody(n, 1, 1, p) : n \in Symbols, p \in Prices}
    \cup {HoldingBody("", 1, 1, 1)}

AddsInit ==
    /\ \E d \in {NoDoc} \cup {StoredHolding(u, "INFY", 1, 1, 1) : u \in Users} :
          holdings = [i \in HoldingIds |-> IF i = "h1" THEN d ELSE NoDoc]
    /\ positions = [i \in PositionIds |-> NoDoc]
    /\ strictQuery \in BOOLEAN
    /\ pres = NoPResponse
    /\ RequestsIdle
    /\ UsersIdle
    /\ OrdersIdle
    /\ AggregateIdle
    /\ WatchlistIdle

AddsNext ==
    \/ \E r \in RequestIds, u \in Users, b \in AddBodies :
          CheckHoldingExists(r, u, b) /\ UNCHANGED <<ovars, avars, wvars, uvars>>
    \/ \E r \in RequestIds :
          InsertHolding(r) /\ UNCHANGED <<ovars, avars, wvars, uvars>>

SpecAdds == AddsInit /\ [][AddsNext]_vars

\* ------------------------------------------------------------- SpecUsers
\* The user routes and the authentication of a protected request.
UsersInit ==
    /\ UsersIdle
    /\ RequestsIdle
    /\ OrdersIdle
    /\ PortfolioIdle
    /\ AggregateIdle
    /\ WatchlistIdle

UsersNext ==
    \/ \E e \in Emails, p \in Passwords, s \in Salts :
          RegisterUser(e, p, s) /\ UNCHANGED <<ovars, pvars, avars, wvars, cvars>>
    \/ \E e \in Emails, p \in Passwords :
          LoginUser(e, p) /\ UNCHANGED <<ovars, pvars, avars, wvars, cvars>>
    \/ \E e \in Emails, p \in Passwords, s \in Salts, h \in Salts :
          ResetPassword(e, p, s, h) /\ UNCHANGED <<ovars, pvars, avars, wvars, cvars>>
    \/ \E s \in Salts, h \in Salts :
          CreateTestUser(s, h) /\ UNCHANGED <<ovars, pvars, avars, wvars, cvars>>
    \/ \E h \in Headers :
          AuthenticateToken(h) /\ UNCHANGED <<ovars, pvars, avars, wvars, cvars>>

SpecUsers == UsersInit /\ [][UsersNext]_vars

\* ---------------------------------------------------------- SpecBulkRace
\* Bulk price updates interleaved with updates of the same holding.
BulkRaceBodies == {HoldingBody("INFY", q, a, p) : q \in Quantities, a \in Prices, p \in Prices}

BulkRaceInit ==
    /\ \E d \in {StoredHolding("u1", "INFY", q, a, 1) : q \in Quantities, a \in Prices} :
          holdings = [i \in HoldingIds |-> IF i = "h1" THEN d ELSE NoDoc]
    /\ positions = [i \in PositionIds |-> NoDoc]
    /\ strictQuery = TRUE
    /\ pres = NoPResponse
    /\ RequestsIdle
    /\ UsersIdle
    /\ OrdersIdle
    /\ AggregateIdle
    /\ WatchlistIdle

BulkRaceNext ==
    \/ \E r \in RequestIds, u \in Users, x \in UpdateItems :
          ReadHoldingForBulk(r, u, x) /\ UNCHANGED <<ovars, avars, wvars, uvars>>
    \/ \E r \in RequestIds :
          WriteHoldingBulk(r) /\ UNCHANGED <<ovars, avars, wvars, uvars>>
    \/ \E u \in Users, i \in HoldingIds, b \in BulkRaceBodies :
          UpdateHolding(u, i, b) /\ UNCHANGED <<ovars, avars, wvars, cvars, uvars>>

SpecBulkRace == BulkRaceInit /\ [][BulkRaceNext]_vars

\* ================================================================ claims
Terminal == {"CANCELLED", "EXECUTED", "REJECTED"}
Modifiable == {"PENDING", "OPEN"}

\* The request of the step was answered for an order the caller owns.
FoundInStep(op) ==
    /\ ores'.op = op
    /\ orders[ores'.orderId] # NoDoc
    /\ orders[ores'.orderId].userId = ores'.userId

\* C1: once an order's status is CANCELLED, EXECUTED or REJECTED, no create,
\* modify or cancel request changes it (or removes the order).
C1_TerminalStatusFinal ==
    [][\A i \in OrderIds :
          (orders[i] # NoDoc /\ orders[i].status \in Terminal)
              => (orders'[i] # NoDoc /\ orders'[i].status = orders[i].status)]_vars

\* A cancel or modify by the owner has been refused on a terminal order.
C1_Witness ==
    /\ ores.op \in {"cancel", "modify"}
    /\ ores.status = 400 /\ ores.error = "Invalid operation"
    /\ orders[ores.orderId] # NoDoc
    /\ orders[ores.orderId].userId = ores.userId
    /\ orders[ores.orderId].status \in Terminal

\* C2: cancel of an order the caller owns: when its status is PENDING (or
\* OPEN) the answer is 200 and the stored order is the old one with status
\* CANCELLED; in any other status the answer is 400 "Invalid operation" and
\* the collection is unchanged.
C2_Cancel ==
    [][FoundInStep("cancel") =>
          LET id == ores'.orderId IN
          IF orders[id].status \in Modifiable
          THEN /\ ores'.status = 200
               /\ orders' = [orders EXCEPT ![id] = [orders[id] EXCEPT !.status = "CANCELLED"]]
          ELSE /\ ores'.status = 400 /\ ores'.error = "Invalid operation"
               /\ orders' = orders]_vars

\* A cancel has succeeded and the order is stored as CANCELLED.
C2_Witness ==
    /\ ores.op = "cancel" /\ ores.status = 200
    /\ orders[ores.orderId] # NoDoc
    /\ orders[ores.orderId].status = "CANCELLED"

\* The paths of an order that PUT /:orderId may change, by the claim.
MutablePaths == {"quantity", "price", "validity", "triggerPrice"}

\* C3: a modify that passed request validation, on an order the caller owns:
\* when the status is not PENDING or OPEN the answer is 400 "Invalid
\* operation" and nothing changes; otherwise every path of the order other
\* than quantity, price, validity and triggerPrice keeps its value (status,
\* userId, symbol, transactionType and orderType among them).  No modify
\* touches another order.
C3_ModifyFrame ==
    [][ores'.op = "modify" =>
          LET id == ores'.orderId IN
          /\ \A j \in OrderIds \ {id} : orders'[j] = orders[j]
          /\ (FoundInStep("modify") /\ ores'.error # "validation") =>
                IF orders[id].status \notin Modifiable
                THEN /\ ores'.status = 400 /\ ores'.error = "Invalid operation"
                     /\ orders' = orders
                ELSE /\ orders'[id] # NoDoc
                     /\ \A f \in (DOMAIN orders[id]) \ MutablePaths :
                            orders'[id][f] = orders[id][f]]_vars

\* A modify has succeeded.
C3_Witness ==
    /\ ores.op = "modify" /\ ores.status = 200
    /\ orders[ores.orderId] # NoDoc
    /\ orders[ores.orderId].status = "PENDING"

\* The body is well formed in the fields the order rules do not read.
WellFormedRest(body) ==
    /\ body.name # "" /\ body.qty >= 1
    /\ body.mode \in TransactionTypeEnum /\ body.validity \in ValidityEnum

NothingPersisted == \A i \in OrderIds : orders[i] = NoDoc
Created == ores.status = 201 /\ orders[ores.orderId] # NoDoc

\* C4: create with orderType LIMIT and no price is refused with a validation
\* error and persists nothing; with a positive price it succeeds and the
\* persisted order has status PENDING.
C4_CreateLimit ==
    (ores.op = "create" /\ ores.body.orderType = "LIMIT" /\ WellFormedRest(ores.body)) =>
        IF ores.body.price = Undefined
        THEN ores.status = 400 /\ NothingPersisted
        ELSE Created /\ orders[ores.orderId].status = "PENDING"

\* The per-type field rules of the specification.
TypeRules(orderType, price, triggerPrice) ==
    /\ orderType \in {"LIMIT", "SL"} => price # Undefined
    /\ orderType \in {"SL", "SL-M"} => triggerPrice # Undefined
    /\ orderType = "SL" => (price # Undefined /\ triggerPrice # Undefined
                            /\ triggerPrice < price)

\* C5: create accepts an SL or SL-M order exactly when it meets the per-type
\* rules; a refused create persists nothing.
C5_CreateStopLoss ==
    (/\ ores.op = "create" /\ ores.body.orderType \in {"SL", "SL-M"}
     /\ WellFormedRest(ores.body)) =>
        /\ Created <=> TypeRules(ores.body.orderType, ores.body.price, ores.body.triggerPrice)
        /\ ~Created => NothingPersisted

\* C6: a created order has status PENDING, remainingQuantity = quantity and
\* orderValue = price x quantity; a MARKET order without a price is created
\* and has orderValue 0.
C6_CreateDefaults ==
    ores.op = "create" =>
        /\ Created =>
              LET o == orders[ores.orderId] IN
              /\ o.status = "PENDING"
              /\ o.remainingQuantity = o.quantity
              /\ o.orderValue = (IF o.price = Undefined THEN 0 ELSE o.price * o.quantity)
        /\ (/\ ores.body.orderType = "MARKET" /\ ores.body.price = Undefined
            /\ WellFormedRest(ores.body)) =>
              Created /\ orders[ores.orderId].orderValue = 0

\* C7: every stored order meets the per-type rules, and a modify that does
\* not succeed leaves the collection as it was.
C7_RulesKept ==
    /\ [](\A i \in OrderIds :
            orders[i] # NoDoc =>
                TypeRules(orders[i].orderType, orders[i].price, orders[i].triggerPrice))
    /\ [][(ores'.op = "modify" /\ ores'.status # 200) => orders' = orders]_vars

\* A modify of an SL order was refused by save().
C7_Witness ==
    /\ ores.op = "modify" /\ ores.status = 500
    /\ orders[ores.orderId] # NoDoc
    /\ orders[ores.orderId].orderType = "SL"

\* The entry of a stored holding and of a stored position in the terms of
\* the claims: qty, avg and price are the quantity, the average price and
\* the market price of the document, net its profit or loss.
HoldingFields(doc) ==
    [avg |-> doc.averageBuyPrice, qty |-> doc.quantity,
     price |-> doc.currentMarketPrice, net |-> doc.profitLoss]
PositionFields(doc) ==
    [avg |-> doc.averagePrice, qty |-> doc.quantity,
     price |-> doc.lastTradedPrice, net |-> doc.profitLoss]

\* C8: after holding add, update and bulk price update requests every
\* stored holding has net = (price - avg) * qty over its currently stored
\* qty, avg and price: a holding that an add or an update answered with
\* success is stored with the qty, avg and price of the request and the net
\* computed from them.
C8_HoldingMetrics ==
    (pres.op \in {"add", "update"} /\ pres.status \in {200, 201})
        => /\ holdings[pres.id] # NoDoc
           /\ LET h == HoldingFields(holdings[pres.id]) IN
                 /\ h.qty = pres.body.qty
                 /\ h.avg = pres.body.avg
                 /\ h.price = pres.body.price
                 /\ h.net = (h.price - h.avg) * h.qty

\* The sum of a sequence of numbers.
RECURSIVE ExactSum(_)
ExactSum(terms) ==
    IF terms = <<>> THEN 0
    ELSE ExactSum(SubSeq(terms, 1, Len(terms) - 1)) + terms[Len(terms)]

\* The totals the list operation is to return for the entries es.
ListTotals(es) ==
    LET n == Len(es)
        totalInvestment == ExactSum([i \in 1..n |-> es[i].avg * es[i].qty])
        currentValue == ExactSum([i \in 1..n |-> es[i].price * es[i].qty])
    IN [totalInvestment |-> ToFixed(totalInvestment),
        currentValue |-> ToFixed(currentValue),
        todaysPnL |-> ToFixed(ExactSum([i \in 1..n |-> es[i].net])),
        totalPnL |-> ToFixed(currentValue - totalInvestment)]

\* C9: the list operation for holdings and for positions returns, over
\* exactly the caller's entries, totalInvestment = sum of avg x qty,
\* currentValue = sum of price x qty, todaysPnL = sum of net and
\* totalPnL = currentValue - totalInvestment, for long and short entries.
C9_ListTotals ==
    (pres.op \in {"listHoldings", "listPositions", "listByProduct"}
     /\ pres.status = 200)
        => LET mine == IF pres.op = "listHoldings"
                       THEN SelectSeq(HoldingOrder, LAMBDA i :
                                holdings[i] # NoDoc
                                /\ holdings[i].userId = pres.userId)
                       ELSE SelectSeq(PositionOrder, LAMBDA i :
                                /\ positions[i] # NoDoc
                                /\ positions[i].userId = pres.userId
                                /\ (pres.op = "listByProduct" =>
                                      positions[i].product = ToUpperCase(pres.id)))
               es == [k \in 1..Len(mine) |->
                         IF pres.op = "listHoldings"
                         THEN HoldingFields(holdings[mine[k]])
                         ELSE PositionFields(positions[mine[k]])]
               want == ListTotals(es)
           IN /\ pres.errors = mine
              /\ \A f \in DOMAIN want : pres.metrics[f] = want[f]

\* No product and no partial sum of either aggregation of the list is
\* rounded: each is a Number as it stands.  A list with an entry whose
\* fields read undefined sums to NaN in every order.
Representable(x) == Fl(x) = x
SumsExact(terms) ==
    \A k \in 1..Len(terms) :
        /\ Representable(terms[k])
        /\ Representable(ExactSum(SubSeq(terms, 1, k)))
NoRounding(list) ==
    \/ \E k \in 1..Len(list) : ~IsNumber(list[k].avg)
    \/ LET n == Len(list)
           inv == [i \in 1..n |-> list[i].avg * list[i].qty]
           cur == [i \in 1..n |-> list[i].price * list[i].qty]
           absInv == [i \in 1..n |-> list[i].avg * Abs(list[i].qty)]
           absCur == [i \in 1..n |-> list[i].price * Abs(list[i].qty)]
           net == [i \in 1..n |-> list[i].net]
       IN /\ SumsExact(inv) /\ SumsExact(cur) /\ SumsExact(net)
          /\ SumsExact(absInv) /\ SumsExact(absCur)
          /\ Representable(ExactSum(cur) - ExactSum(inv))
          /\ Representable(ExactSum(absCur) - ExactSum(absInv))

C11_UndefinedPercentage ==
    (/\ pres.op \in {"listHoldings", "listPositions", "listByProduct"}
     /\ pres.status = 200
     /\ pres.metrics.totalInvestment = "0.00")
        => pres.metrics.totalPnLPercentage \notin {"NaN", "Infinity", "-Infinity"}

\* The entries of a stored watchlist, and whether a pair is among them.
HasPair(list, item) ==
    \E k \in 1..Len(list) :
        list[k].symbol = item.symbol /\ list[k].exchange = item.exchange
\* A step that is a well-formed add request of op on a watchlist of the caller.
OnOwnList(op) ==
    /\ wres'.op = op
    /\ wres'.id \in WatchlistIds
    /\ FindWatchlist(wres'.id, wres'.userId) # NoDoc

\* C12: adding a (symbol, exchange) pair that the watchlist already holds
\* fails with a duplicate error and leaves the watchlist unchanged; adding
\* an absent pair appends it at the end of the entries.
C12_AddStock ==
    [][(OnOwnList("add") /\ stockValidation(wres'.arg[1])) =>
          LET entries == watchlists[wres'.id].items
              pair == CastItem(wres'.arg[1])
          IN IF HasPair(entries, pair)
             THEN /\ wres'.status \in {400, 409}
                  /\ wres'.error = "Stock exists"
                  /\ watchlists' = watchlists
             ELSE /\ wres'.status = 201
                  /\ watchlists'[wres'.id].items = Append(entries, pair)]_vars

\* C13: no two entries of a stored watchlist have the same
\* (uppercase-normalized symbol, exchange) pair.
C13_NoDuplicateEntries ==
    \A i \in WatchlistIds :
        watchlists[i] # NoDoc =>
            \A k, j \in 1..Len(watchlists[i].items) :
                (/\ UpperCase(watchlists[i].items[k].symbol)
                        = UpperCase(watchlists[i].items[j].symbol)
                 /\ watchlists[i].items[k].exchange
                        = watchlists[i].items[j].exchange) => k = j
\* An add of a differently cased symbol of an entry has been requested on a
\* watchlist of the caller that has entries.
C13_Witness ==
    /\ wres.op = "add"
    /\ wres.id \in WatchlistIds
    /\ FindWatchlist(wres.id, wres.userId) # NoDoc
    /\ Len(watchlists[wres.id].items) > 0
    /\ wres.arg[1].symbol = "infy"
    /\ HasPair(watchlists[wres.id].items, CastItem(wres.arg[1]))

\* The watchlist a remove request of the last step is about, and whether an
\* entry is the one the request names (the route by id names a symbol, the
\* route of the default list a symbol and an exchange).
RemoveTargets ==
    IF wres'.op = "remove"
    THEN {i \in WatchlistIds : FindWatchlist(i, wres'.userId) # NoDoc
                                /\ i = wres'.id}
    ELSE FindWatchlistByName(wres'.userId, "Default")
Named(entry, stock) ==
    /\ entry.symbol = stock.symbol
    /\ (stock.exchange = "" \/ entry.exchange = stock.exchange)

\* C14: removing a stock that the watchlist does not hold fails with not
\* found and leaves the watchlist unchanged; otherwise exactly the named
\* entry is removed and the other entries keep their order.
C14_RemoveStock ==
    [][((\/ wres'.op = "remove"
         \/ wres'.op = "removeDefault" /\ wres'.arg[1].exchange # "")
        /\ RemoveTargets # {}) =>
          \A i \in RemoveTargets :
             LET entries == watchlists[i].items
                 stock == wres'.arg[1]
             IN IF \A k \in 1..Len(entries) : ~Named(entries[k], stock)
                THEN /\ wres'.status = 404
                     /\ wres'.error = "Stock not found"
                     /\ watchlists' = watchlists
                ELSE /\ wres'.status = 200
                     /\ watchlists'[i].items
                          = SelectSeq(entries, LAMBDA s : ~Named(s, stock))]_vars

\* newOrder has every entry of entries exactly once and nothing else.
IsPermutation(newOrder, entries) ==
    /\ Len(newOrder) = Len(entries)
    /\ PairSet(newOrder) = PairSet(entries)
    /\ Cardinality(PairSet(newOrder)) = Len(newOrder)

\* C15: a reorder succeeds exactly when the new order is a permutation of
\* the entries of the watchlist; then the stored sequence is the new order,
\* and otherwise the watchlist is unchanged.
C15_Reorder ==
    [][(OnOwnList("reorder") /\ wres'.arg # NotAnArray) =>
          IF IsPermutation(wres'.arg, watchlists[wres'.id].items)
          THEN /\ wres'.status = 200
               /\ watchlists'[wres'.id].items = CastItems(wres'.arg)
          ELSE /\ wres'.status = 400
               /\ watchlists' = watchlists]_vars

\* The watchlists of a user that are marked default.
DefaultsOf(userId) ==
    {i \in WatchlistIds : /\ watchlists[i] # NoDoc
                          /\ watchlists[i].userId = userId
                          /\ watchlists[i].isDefault}

\* C16: at most one watchlist of a user is marked default.
C16_OneDefault ==
    \A u \in Users : Cardinality(DefaultsOf(u)) <= 1
\* A watchlist marked default has been saved while its owner has another
\* watchlist.
C16_Witness ==
    /\ wres.op = "save"
    /\ wres.status = 200
    /\ wres.doc.isDefault
    /\ DefaultsOf(wres.userId) = {wres.id}
    /\ \E j \in WatchlistIds \ {wres.id} :
          watchlists[j] # NoDoc /\ watchlists[j].userId = wres.userId

\* The stored entities of a user under a key.
HoldingsUnder(userId, symbol) ==
    {i \in HoldingIds : /\ holdings[i] # NoDoc
                        /\ holdings[i].userId = userId
                        /\ holdings[i].symbol = symbol}
PositionsUnder(userId, symbol, product) ==
    {i \in PositionIds : /\ positions[i] # NoDoc
                         /\ positions[i].userId = userId
                         /\ positions[i].symbol = symbol
                         /\ positions[i].product = product}
\* The answer to an add under a taken key: a conflict, nothing stored.
Conflict(response, error) ==
    /\ response.status \in {400, 409}
    /\ response.error = error
    /\ UNCHANGED <<holdings, positions, watchlists>>

\* C17: adding a holding, a position or a watchlist under a key that the
\* caller already has fails with a conflict error and leaves the store
\* unchanged.
C17_KeyConflict ==
    [][/\ \A u \in Users, b \in KeyHoldingBodies :
            (/\ AddHolding(u, b)
             /\ holdingValidation(b)
             /\ HoldingsUnder(u, b.name) # {}) => Conflict(pres', "Holding exists")
       /\ \A u \in Users, b \in KeyPositionBodies :
            (/\ AddPosition(u, b)
             /\ positionValidation(b)
             /\ PositionsUnder(u, b.name, b.product) # {})
                => Conflict(pres', "Position exists")
       /\ \A u \in Users, n \in CreateNames :
            (/\ CreateWatchlist(u, n)
             /\ FindWatchlistByName(u, Trim(n)) # {})
                => Conflict(wres', "Watchlist exists")]_vars

\* The items of a bulk request that are well formed and name an entity of
\* the caller, by position in the list.
GoodHoldingItems(userId, updates) ==
    {k \in 1..Len(updates) :
        /\ updates[k].holdingId # ""
        /\ ~Falsy(updates[k].price)
        /\ FindHolding(updates[k].holdingId, userId) # NoDoc}
GoodPositionItems(userId, updates) ==
    {k \in 1..Len(updates) :
        /\ updates[k].positionId # ""
        /\ ~Falsy(updates[k].price)
        /\ FindPosition(updates[k].positionId, userId) # NoDoc}

\* C18: a bulk price update stores the price of every well-formed item
\* whose id the caller owns, whatever happens to the other items, and its
\* error list has one entry for each of the other items.
C18_BulkUpdate ==
    [][/\ \A u \in Users, b \in BulkBodies :
            (BulkUpdateHoldings(u, b) /\ b.isArray) =>
               LET good == GoodHoldingItems(u, b.updates) IN
               /\ \A k \in good :
                     (\A j \in good : j > k =>
                         b.updates[j].holdingId # b.updates[k].holdingId)
                     => holdings'[b.updates[k].holdingId].currentMarketPrice
                            = b.updates[k].price
               /\ Len(pres'.errors) = Len(b.updates) - Cardinality(good)
       /\ \A u \in Users, b \in PositionBulkBodies :
            (BulkUpdatePositions(u, b) /\ b.isArray) =>
               LET good == GoodPositionItems(u, b.updates) IN
               /\ \A k \in good :
                     (\A j \in good : j > k =>
                         b.updates[j].positionId # b.updates[k].positionId)
                     => positions'[b.updates[k].positionId].lastTradedPrice
                            = b.updates[k].price
               /\ Len(pres'.errors) = Len(b.updates) - Cardinality(good)]_vars

\* The user whose request the step handled.
Caller ==
    IF ores'.op # "none" THEN ores'.userId
    ELSE IF pres'.op # "none" THEN pres'.userId
    ELSE wres'.userId
\* The entity under id is not one of userId: it is another user's ...
Foreign(collection, id, userId) ==
    collection[id] # NoDoc /\ collection[id].userId # userId
\* ... or there is none.
NotOwn(collection, id, userId) ==
    collection[id] = NoDoc \/ collection[id].userId # userId
\* The step left every entity of the collection that is not userId's alone.
ForeignKept(collection, after, userId) ==
    \A i \in DOMAIN collection :
        Foreign(collection, i, userId) => after[i] = collection[i]
HoldingOps == {"get", "update", "delete"}
PositionOps == {"getPosition", "updatePosition", "deletePosition", "squareOff"}
OrderOps == {"get", "cancel", "modify"}
WatchlistOps == {"get", "delete", "add", "remove", "reorder"}

\* C19: a request of user A never returns, modifies or deletes an entity
\* of another user; get, update, delete, cancel, square-off and bulk update
\* on an id of another user report not found.
C19_Isolation ==
    [][/\ ForeignKept(orders, orders', Caller)
       /\ ForeignKept(holdings, holdings', Caller)
       /\ ForeignKept(positions, positions', Caller)
       /\ ForeignKept(watchlists, watchlists', Caller)
       /\ "doc" \in DOMAIN ores' => ores'.doc.userId = Caller
       /\ "doc" \in DOMAIN pres' => pres'.doc.userId = Caller
       /\ wres'.doc # NoDoc => wres'.doc.userId = Caller
       /\ pres'.op = "listHoldings" =>
             \A k \in 1..Len(pres'.errors) :
                 holdings[pres'.errors[k]].userId = Caller
       /\ pres'.op = "listPositions" =>
             \A k \in 1..Len(pres'.errors) :
                 positions[pres'.errors[k]].userId = Caller
       /\ (/\ ores'.op \in OrderOps
           /\ ores'.error # "validation"
           /\ Foreign(orders, ores'.orderId, Caller)) => ores'.status = 404
       /\ (/\ pres'.op \in HoldingOps
           /\ pres'.error # "validation"
           /\ Foreign(holdings, pres'.id, Caller)) => pres'.status = 404
       /\ (/\ pres'.op \in PositionOps
           /\ pres'.error # "validation"
           /\ Foreign(positions, pres'.id, Caller)) => pres'.status = 404
       /\ (/\ wres'.op \in WatchlistOps
           /\ wres'.error # "validation"
           /\ Foreign(watchlists, wres'.id, Caller)) => wres'.status = 404
       /\ \A u \in Users, i \in HoldingIds :
             (/\ pres'.op = "bulk" /\ pres'.userId = u
              /\ Foreign(holdings, i, u)
              /\ BulkUpdateHoldings(u, IsolationBulk([holdingId |-> i,
                                                      price |-> MaxPrice])))
                 => pres'.errors = <<"Holding not found">>
       /\ \A u \in Users, i \in PositionIds :
             (/\ pres'.op = "bulkPositions" /\ pres'.userId = u
              /\ Foreign(positions, i, u)
              /\ BulkUpdatePositions(u, IsolationBulk([positionId |-> i,
                                                       price |-> MaxPrice])))
                 => pres'.errors = <<"Position not found">>]_vars
\* A user has asked to delete a holding of the other user, which is still
\* there.
C19_Witness ==
    /\ pres.op = "delete"
    /\ pres.status = 404
    /\ Foreign(holdings, pres.id, pres.userId)

\* What a response sends: the record without the request it answers.
Sent(response) ==
    [f \in DOMAIN response \ {"op", "userId", "id", "orderId", "body", "arg"} |->
        response[f]]

\* C20: get, update, delete, cancel and square-off answer an id of another
\* user exactly as they answer an id under which there is nothing: the
\* same status and body, that of not found, and no change to any entity.
C20_Indistinguishable ==
    [][/\ (/\ ores'.op \in OrderOps
           /\ ores'.error # "validation"
           /\ NotOwn(orders, ores'.orderId, Caller)) =>
             /\ Sent(ores') = Sent(Response("", "", "", BaseBody, 404,
                                            "Order not found"))
             /\ UNCHANGED <<orders, holdings, positions, watchlists>>
       /\ (/\ pres'.op \in HoldingOps
           /\ pres'.error # "validation"
           /\ NotOwn(holdings, pres'.id, Caller)) =>
             /\ Sent(pres') = Sent(PResponse("", "", "", NoBody, 404,
                                             "Holding not found", NoHolding,
                                             NoMetrics, <<>>))
             /\ UNCHANGED <<orders, holdings, positions, watchlists>>
       /\ (/\ pres'.op \in PositionOps
           /\ pres'.error # "validation"
           /\ NotOwn(positions, pres'.id, Caller)) =>
             /\ Sent(pres') = Sent(PResponse("", "", "", NoBody, 404,
                                             "Position not found", NoHolding,
                                             NoMetrics, <<>>))
             /\ UNCHANGED <<orders, holdings, positions, watchlists>>
       /\ (/\ wres'.op \in WatchlistOps
           /\ wres'.error # "validation"
           /\ NotOwn(watchlists, wres'.id, Caller)) =>
             /\ Sent(wres') = Sent(WResponse("", "", "", <<>>, 404,
                                             "Watchlist not found", NoDoc))
             /\ UNCHANGED <<orders, holdings, positions, watchlists>>]_vars
\* A user has asked to square off a position of the other user.
C20_Witness ==
    /\ pres.op = "squareOff"
    /\ Foreign(positions, pres.id, pres.userId)
    /\ Sent(pres) = Sent(PResponse("", "", "", NoBody, 404, "Position not found",
                                   NoHolding, NoMetrics, <<>>))

\* netQty x (ltp - avgPrice) x multiplier, in exact arithmetic.
UnrealizedOf(doc, avgPrice) ==
    (doc.buyQuantity - doc.sellQuantity)
        * (doc.lastTradedPrice - avgPrice) * doc.multiplier
\* The average of the side the position is on.
SideAverage(doc) ==
    IF doc.buyQuantity > doc.sellQuantity THEN doc.buyAveragePrice
    ELSE doc.sellAveragePrice

\* C21 as stated: every stored position has unrealizedProfitLoss =
\* netQty x (lastTradedPrice - averagePrice) x multiplier and profitLoss =
\* realizedProfitLoss + unrealizedProfitLoss.
C21_PnLFromAveragePrice ==
    \A i \in PositionIds :
        positions[i] # NoDoc =>
            /\ positions[i].unrealizedProfitLoss
                   = UnrealizedOf(positions[i], positions[i].averagePrice)
            /\ positions[i].profitLoss
                   = positions[i].realizedProfitLoss
                         + positions[i].unrealizedProfitLoss

\* C21 amended: every stored position has unrealizedProfitLoss = netQty x
\* (lastTradedPrice - the buy average when long, the sell average when
\* short) x multiplier and profitLoss = realizedProfitLoss +
\* unrealizedProfitLoss.
C21_PnLFromSideAverage ==
    \A i \in PositionIds :
        positions[i] # NoDoc =>
            /\ positions[i].unrealizedProfitLoss
                   = UnrealizedOf(positions[i], SideAverage(positions[i]))
            /\ positions[i].profitLoss
                   = positions[i].realizedProfitLoss
                         + positions[i].unrealizedProfitLoss
\* The price of a short position with a multiplier has been updated and
\* its unrealized profit is not 0.
C21_Witness ==
    /\ pres.op = "updateMarketPrice"
    /\ positions[pres.id].buyQuantity < positions[pres.id].sellQuantity
    /\ positions[pres.id].multiplier > 1
    /\ positions[pres.id].unrealizedProfitLoss # 0
    /\ positions[pres.id].realizedProfitLoss # 0

\* C22: every stored holding has investedAmount = quantity x
\* averageBuyPrice, currentValue = quantity x currentMarketPrice and
\* profitLoss = currentValue - investedAmount.
C22_DerivedAmounts ==
    \A i \in HoldingIds :
        holdings[i] # NoDoc =>
            /\ holdings[i].investedAmount
                   = holdings[i].quantity * holdings[i].averageBuyPrice
            /\ holdings[i].currentValue
                   = holdings[i].quantity * holdings[i].currentMarketPrice
            /\ holdings[i].profitLoss
                   = holdings[i].currentValue - holdings[i].investedAmount

\* C23: a square-off of a position the caller owns removes the position
\* and answers 200, reporting finalPnL from the position's stored net.
C23_SquareOffReportsPnL ==
    [][\A i \in PositionIds :
          (/\ pres'.op = "squareOff"
           /\ pres'.id = i
           /\ positions[i] # NoDoc
           /\ positions[i].userId = pres'.userId)
          => /\ positions'[i] = NoDoc
             /\ pres'.status = 200
             /\ Read(positions[i], "net") # Undefined]_vars

\* C24: once the stored status of an order is EXECUTED, CANCELLED or
\* REJECTED, no step of a modify or cancel request changes any of its
\* fields, whatever the interleaving of the requests.
C24_TerminalFrozen ==
    [][\A i \in OrderIds :
          (orders[i] # NoDoc /\ orders[i].status \in {"EXECUTED", "CANCELLED", "REJECTED"})
          => orders'[i] = orders[i]]_vars

\* C25: no two stored holdings have the same owner and the same symbol,
\* also when two add requests pass the existence check before either
\* inserts.
C25_UniqueHoldings ==
    \A i, j \in HoldingIds :
        (i # j /\ holdings[i] # NoDoc /\ holdings[j] # NoDoc)
        => ~(holdings[i].userId = holdings[j].userId
             /\ holdings[i].symbol = holdings[j].symbol)

\* One add has finished its insert while another add of the same owner
\* and name, which passed the existence check, is still to insert.
C25_Witness ==
    /\ pres.op = "add"
    /\ pres.status \in {201, 500}
    /\ \E r \in RequestIds :
          /\ inflight[r].op = "add"
          /\ inflight[r].userId = pres.userId
          /\ inflight[r].body.name = pres.body.name

\* C26: when a request passes authenticateToken, the owner id the route
\* reads from req.user.id is defined and is the _id of the user the token
\* was issued to.
C26_OwnerIdIsTokenUser ==
    (ures.op = "authenticate" /\ ures.status = 200)
    => /\ ures.ownerId # UndefStr
       /\ ures.ownerId = ures.token.userId

\* C27: after a register, reset-password or create-test-user that
\* answered success for password p, the account stores a single bcrypt
\* hash of p, which the comparison of login accepts.
C27_StoredPasswordLogsIn ==
    (ures.op \in {"register", "reset-password", "create-test-user"}
     /\ ures.status \in {200, 201})
    => \E i \in Users :
          /\ accounts[i] # NoDoc
          /\ accounts[i].email = ures.email
          /\ BcryptCompare(Plain(ures.password), accounts[i].password)
          /\ \E s \in Salts :
                accounts[i].password = BcryptHash(Plain(ures.password), s)

\* C28: every run of the pre('save') hook of an order calls next exactly
\* once, with the error when a rule fails and without one otherwise.
C28_HookSignalsOnce ==
    [][\A u \in Users, i \in OrderIds, b \in ModifyBodies :
          (/\ ores'.op = "modify"
           /\ ores'.status \in {200, 500}
           /\ ores'.userId = u
           /\ ores'.orderId = i
           /\ FindOrder(i, u) # NoDoc
           /\ OrdersSchemaValid(Patched(FindOrder(i, u), b))
           /\ ModifyOrder(u, i, b))
          => Len(PreSaveCalls(Patched(FindOrder(i, u), b))) = 1]_vars

\* C29: every stored order without fills has remainingQuantity = quantity
\* and orderValue = price x quantity.
C29_DerivedOrderFields ==
    \A i \in OrderIds :
        (orders[i] # NoDoc /\ orders[i].filledQuantity = 0
         /\ orders[i].price # Undefined)
        => /\ orders[i].remainingQuantity = orders[i].quantity
           /\ orders[i].orderValue = orders[i].price * orders[i].quantity

\* C30: when the write of a bulk price update lands, whatever ran since
\* its read, the stored holding carries a net that is (price - avg) * qty
\* of its stored price, avg and qty.
C30_BulkKeepsNet ==
    [][\A r \in RequestIds :
          (inflight[r].op = "bulk" /\ inflight'[r] = NoRequest)
          => \A i \in HoldingIds :
                (/\ i = inflight[r].holdingId
                 /\ holdings'[i] # NoDoc
                 /\ holdings'[i].userId = inflight[r].userId)
                => LET e == Entry(holdings'[i]) IN
                   /\ IsNumber(e.net) /\ IsNumber(e.price)
                   /\ IsNumber(e.avg) /\ IsNumber(e.qty)
                   /\ e.net = (e.price - e.avg) * e.qty]_vars

====
